---------------------------- MODULE Spec2Model ----------------------------
(***************************************************************************)
(* Model of the virtual link and interface layer of mininet (BSD port):    *)
(*   src/mininet/util.py          retry, moveIntf                          *)
(*   src/mininet/openbsd/util.py  moveIntfNoRetry, makeIntfPair            *)
(*   src/mininet/link.py          Intf, IFIntf, TCIntf, Link, OVSLink, ... *)
(*   src/mininet/openbsd/intf.py  pair(4) flavoured Intf                   *)
(*   src/mininet/freebsd/intf.py  epair/jail flavoured Intf                *)
(*                                                                         *)
(* Several specifications share the module:                                *)
(*   SpecRetry   the retry loop around the device move                     *)
(*   Spec        construction and deletion of links and interfaces         *)
(*   SpecFast    links made with and without the fast flag                 *)
(*   SpecIntf    rename, setIP, status and delete of one interface         *)
(*   SpecShape   the configure() call of the two shaped interfaces         *)
(*   SpecOrder   the order of the stages of TCIntf.config                  *)
(*   SpecIFLink  IFLink and its shape_link                                 *)
(*   SpecConfig  Intf.config and the methods it calls                      *)
(*   SpecShapedLink  TCLink and IFLink made from one option dictionary     *)
(*   SpecAlloc   the pair factory and the pipe numbers, one caller         *)
(*   SpecRace    the shared counters with two unserialised callers         *)
(***************************************************************************)
EXTENDS Integers, Sequences, FiniteSets, TLC

VARIABLES
    \* ---- retry / moveIntf (util.py) ----
    rpc,        \* position of the process inside retry()
    rargs,      \* arguments moveIntf() was called with
    tries,      \* local variable `tries` of retry()
    rlog,       \* what the call did so far: commands, error reports, sleeps, exit
    \* ---- nodes, interfaces and links (link.py, */intf.py) ----
    nodePort,   \* per node: the next free port number (Node.newPort)
    nodeIntfs,  \* per node: the interfaces in its interface table
    portNames,  \* per node: logical name -> real device name (pair-style backend)
    intfs,      \* the Intf objects made so far, in order of construction
    links,      \* the Link objects made so far, in order of construction
    cmds,       \* per interface: the commands it handed to the command runner, in order
    pairCalls,  \* the calls of the backend pair factory, in order
    last,       \* the last operation called and whether it raised
    devs,       \* the devices the system currently has, as the listings show them
    \* ---- shaped interfaces (link.py: TCIntf, IFIntf) ----
    shArgs,     \* the configure() call examined: class, node, options
    shRes,      \* what the last configure() call did and returned
    pipeNo,     \* IFIntf.pipeNo, shared by all IFIntf objects
    \* ---- the shared counters and their callers (link.py, openbsd/intf.py) ----
    index,      \* Intf.index of the pair-style backend, shared by all its Intf
    handed,     \* the numbers handed out so far, in order: pipes and pair indices
    thr         \* per caller: where it is inside an allocation, and its locals

retryVars == << rpc, rargs, tries, rlog >>
linkVars == << nodePort, nodeIntfs, portNames, intfs, links, cmds, pairCalls, last,
              devs >>

shapeVars == << shArgs, shRes, pipeNo >>
allocVars == << index, handed, thr >>

vars == << rpc, rargs, tries, rlog,
           nodePort, nodeIntfs, portNames, intfs, links, cmds, pairCalls, last, devs,
           shArgs, shRes, pipeNo, index, handed, thr >>

NULL == "None"

\* Python's `a in b` on strings
Contains(s, t) ==
    \E i \in 1..(Len(s) - Len(t) + 1) : SubSeq(s, i, i + Len(t) - 1) = t

(***************************************************************************)
(* retry() and moveIntf()                                                  *)
(***************************************************************************)

\* largest retry budget a caller passes
MaxRetries == 4
\* moveIntf( ..., retries=3, ... )
DefaultRetries == 3

\* what quietRun() may give back for the move command: nothing, or a complaint
MoveOutputs == { "", "ifconfig: SIOCSIFRDOMAIN: Device busy" }

\* the destination node of the move: its routing domain and its table of
\* logical name -> real pair(4) device
DstNode == [ name |-> "h1", rdid |-> 1,
             portNames |-> [ n \in { "h1-eth0" } |-> "pair1" ] ]

\* interface arguments handed to moveIntf: a real device name, a logical name
MoveIntfNames == { "pair0", "h1-eth0" }

Ev(e, a, o) == [ ev |-> e, arg |-> a, out |-> o ]

\* moveIntfNoRetry( intf, dstNode, printError ): the device the command is
\* aimed at, the events of the call and its result, for the output `out`
MoveTarget(intf, dstNode) ==
    IF ~Contains(intf, "pair") THEN dstNode.portNames[intf] ELSE intf

moveIntfNoRetry(intf, dstNode, printError, out) ==
    LET target == MoveTarget(intf, dstNode)
        cmd    == Ev("cmd", "ifconfig " \o target \o " rdomain "
                            \o ToString(dstNode.rdid) \o " up", out)
    IN  IF out # ""
        THEN [ ok  |-> FALSE,
               evs |-> IF printError THEN << cmd, Ev("error", target, "") >>
                                     ELSE << cmd >> ]
        ELSE [ ok |-> TRUE, evs |-> << cmd >> ]

\* the loop condition of retry(): `not fn(...) and tries < retries`
RetryContinueOffByOne(ok, t, r) == ~ok /\ t <= r
RetryContinue(ok, t, r) == ~ok /\ t < r

\* the test after the loop: `if tries >= retries`
RetryGivesUp(t, r) == t >= r

InitRetry ==
    /\ rpc = "idle"
    /\ rargs = [ intf |-> "pair0", printError |-> TRUE, retries |-> DefaultRetries,
                 lastOk |-> FALSE ]
    /\ tries = 0
    /\ rlog = << >>

\* moveIntf( intf, dstNode, printError, retries, delaySecs ) enters retry()
MoveIntf(intf, printError, r) ==
    /\ rpc = "idle"
    /\ rargs' = [ intf |-> intf, printError |-> printError, retries |-> r,
                  lastOk |-> FALSE ]
    /\ tries' = 0
    /\ rlog' = << >>
    /\ rpc' = "call"
    /\ UNCHANGED << linkVars, shapeVars, allocVars >>

\* one evaluation of the loop condition: the call of fn, then the test
RetryAttempt(out) ==
    /\ rpc = "call"
    /\ LET res == moveIntfNoRetry(rargs.intf, DstNode, rargs.printError, out)
       IN  /\ rlog' = rlog \o res.evs
           /\ rargs' = [ rargs EXCEPT !.lastOk = res.ok ]
           /\ rpc' = IF RetryContinue(res.ok, tries, rargs.retries)
                     THEN "sleep" ELSE "after"
    /\ UNCHANGED << tries, linkVars, shapeVars, allocVars >>

\* the loop body: sleep( delaySecs ); tries += 1
RetrySleep ==
    /\ rpc = "sleep"
    /\ rlog' = Append(rlog, Ev("sleep", "", ""))
    /\ tries' = tries + 1
    /\ rpc' = "call"
    /\ UNCHANGED << rargs, linkVars, shapeVars, allocVars >>

\* after the loop: error( "gave up" ) and exit( 1 ), or return
RetryFinish ==
    /\ rpc = "after"
    /\ IF RetryGivesUp(tries, rargs.retries)
       THEN /\ rlog' = rlog \o << Ev("gaveup", ToString(tries), ""), Ev("exit", "1", "") >>
            /\ rpc' = "exited"
       ELSE /\ rlog' = rlog
            /\ rpc' = "returned"
    /\ UNCHANGED << rargs, tries, linkVars, shapeVars, allocVars >>

NextRetry ==
    \/ \E intf \in MoveIntfNames, pe \in BOOLEAN, r \in 0..MaxRetries :
          MoveIntf(intf, pe, r)
    \/ \E out \in MoveOutputs : RetryAttempt(out)
    \/ RetrySleep
    \/ RetryFinish

(***************************************************************************)
(* Nodes (external collaborators), interfaces and links                    *)
(***************************************************************************)

\* how many links are made
MaxLinks == 1
\* Link.__init__( ..., fast=True )
DefaultFast == TRUE

\* a reference that is None
NoRef == 0

\* h1 is a host living in a jail, s1 and s2 are OVSSwitch nodes in the root
\* context
Nodes == { "h1", "s1", "s2" }
NodeName(n) == n
Jid(n) == IF n = "h1" THEN "3" ELSE NULL
IsOVSSwitch(n) == n \in { "s1", "s2" }
\* the pairs of nodes a link is made between: host to itself, host to switch
\* in both orders, switch to switch, switch to itself
LinkEnds == { << "h1", "h1" >>, << "h1", "s1" >>, << "s1", "h1" >>,
              << "s1", "s2" >>, << "s1", "s1" >> }

\* the link classes and the interface classes they are built with
LinkVariants == { "Link", "TCLink", "IFLink", "OVSLink" }
\* Link( ..., intf=... ): link.py's Intf, or a backend's Intf
IntfClasses == { "Intf", "freebsd.Intf", "openbsd.Intf" }

\* Node.newPort(): the next port of the node's counter, which then advances
newPort(ports, n) == ports[n]
PortsAfterNewPort(ports, n) == [ ports EXCEPT ![n] = @ + 1 ]

\* Node.addIntf( intf, port ) and Node.delIntf( intf ): the interface table
addIntf(tab, n, id) == [ tab EXCEPT ![n] = @ \cup { id } ]
delIntf(tab, n, id) == [ tab EXCEPT ![n] = @ \ { id } ]

\* Link.intfName( node, n ): node.name + '-eth' + repr( n )
IntfNameNoPort(node, n) == NodeName(node) \o "-eth"
intfName(node, n) == NodeName(node) \o "-eth" \o ToString(n)

\* a command handed to the runner of `node`: through node.cmd or node.pexec
Cmd(node, via, dev, args) == [ node |-> node, via |-> via, dev |-> dev, args |-> args ]

\* the result of a method: whether it raised, and the commands it issued
Ran(cs) == [ raised |-> FALSE, cmds |-> cs ]
Raised == [ raised |-> TRUE, cmds |-> << >> ]

\* ' '.join of an argument list
RECURSIVE Join(_)
Join(args) ==
    IF Len(args) = 0 THEN ""
    ELSE IF Len(args) = 1 THEN args[1]
    ELSE args[1] \o " " \o Join(Tail(args))

\* Intf.ifconfig( *args ) of link.py and of freebsd/intf.py (inherited):
\* self.cmd( 'ifconfig', self.name, *args )
BaseIfconfig(i, args) ==
    Ran(<< Cmd(i.node, "cmd", i.name, Join(args)) >>)

\* Intf.ifconfig( *args ) of openbsd/intf.py: node.pexec on the real name
PairIfconfig(i, args) ==
    Ran(<< Cmd(i.node, "pexec",
               IF i.realname # NULL THEN i.realname ELSE i.name, Join(args)) >>)

\* OVSIntf.ifconfig( *args ): 'up' is a no-op, anything else raises
OVSIntfIfconfigRuns(i, args) == BaseIfconfig(i, args)
OVSIntfIfconfig(i, args) ==
    IF Join(args) = "up" THEN Ran(<< >>) ELSE Raised

ifconfig(i, args) ==
    CASE i.cls = "OVSIntf"      -> OVSIntfIfconfig(i, args)
      [] i.cls = "openbsd.Intf" -> PairIfconfig(i, args)
      [] OTHER                  -> BaseIfconfig(i, args)

\* Intf.config( mac=None, ip=None, ifconfig=None, up=True ) as called by the
\* constructor with the parameters a Link passes by default: only isUp( True ),
\* that is ifconfig( 'up' )
IntfConfig(i) == ifconfig(i, << "up" >>)

\* config() of each class with no shaping parameter: TCIntf switches GRO off
\* and returns, IFIntf returns
config(i) ==
    LET base == IntfConfig(i)
    IN  IF i.cls = "TCIntf" /\ ~base.raised
        THEN Ran(base.cmds \o
                 << Cmd(i.node, "cmd", "ethtool", "-K " \o i.name \o " gro off") >>)
        ELSE base

\* the commands of the constructor of class cls: config(), and for the
\* pair-style backend the description
IntfInitCmds(i) ==
    LET c == config(i)
    IN  IF i.cls = "openbsd.Intf" /\ ~c.raised
        THEN Ran(c.cmds \o
                 PairIfconfig(i, << "description", "\"" \o i.name \o "\"" >>).cmds)
        ELSE c

\* Intf.__init__: the fields of a new interface
NewIntf(cls, name, node, port, link) ==
    [ name |-> name, realname |-> NULL, node |-> node, link |-> link,
      mac |-> NULL, ip |-> NULL, prefixLen |-> NULL, cls |-> cls,
      port |-> port, ndel |-> 0, orgName |-> NULL ]

\* the interface class of both ends
EndClass(variant, intf, patch) ==
    CASE variant = "TCLink"  -> "TCIntf"
      [] variant = "IFLink"  -> "IFIntf"
      [] variant = "OVSLink" /\ patch -> "OVSIntf"
      [] OTHER -> intf

\* OVSLink.__init__: isPatchLink
IsPatch(variant, n1, n2) ==
    variant = "OVSLink" /\ IsOVSSwitch(n1) /\ IsOVSSwitch(n2)

\* a constructor that never hands the nodes to the pair factory
PairCallWithoutNodes(patch, fast, name1, name2, n1, n2) ==
    IF patch THEN << >>
    ELSE << [ intf1 |-> name1, intf2 |-> name2, node1 |-> NULL, node2 |-> NULL,
              deleteIntfs |-> ~fast ] >>

\* the call of the pair factory made by Link.__init__ through
\* self.makeIntfPair; a patch link makes none
PairCall(patch, fast, name1, name2, n1, n2) ==
    IF patch THEN << >>
    ELSE IF fast
    THEN << [ intf1 |-> name1, intf2 |-> name2, node1 |-> n1, node2 |-> n2,
              deleteIntfs |-> FALSE ] >>
    ELSE << [ intf1 |-> name1, intf2 |-> name2, node1 |-> NULL, node2 |-> NULL,
              deleteIntfs |-> TRUE ] >>

\* Link.__init__ with fast: params.setdefault( 'moveIntfFn', self._ignore );
\* without it the constructor of the interface gets no move function
MoveIntfFn(fast) == IF fast THEN "_ignore" ELSE NULL

\* node.rdid: the routing domain of a node, 0 for the root context
Rdid(n) == IF n = "h1" THEN 1 ELSE 0
\* node.inNamespace
InNamespace(n) == Rdid(n) # 0

\* makeIntfPair of the pair-style backend: end k is created in the routing
\* domain of its node when the call names the node and the node has one
PairPlaces(calls, k) ==
    /\ Len(calls) = 1
    /\ LET nd == IF k = 1 THEN calls[1].node1 ELSE calls[1].node2
       IN  nd # NULL /\ Rdid(nd) # 0

\* Intf.__init__: node.addIntf( self, port=port[, moveIntfFn=moveIntfFn] );
\* Node.addIntf calls the move function, by default moveIntf, when the node
\* is in a namespace, and Link._ignore does nothing
AddIntfMoves(n, fn) == InNamespace(n) /\ fn # "_ignore"

\* the steps of Link.__init__ that put end k, on node n, into n's context
PlacedBy(calls, fast, n, k) ==
    (IF PairPlaces(calls, k) THEN { "makeIntfPair" } ELSE { })
    \cup (IF AddIntfMoves(n, MoveIntfFn(fast)) THEN { "Intf.__init__" } ELSE { })

\* the command of the move made by Node.addIntf through moveIntf, run in the
\* root context: 'ifconfig <dev> rdomain <rdid> up'; its retries are those of
\* the retry loop
MoveCmds(i, fast) ==
    IF AddIntfMoves(i.node, MoveIntfFn(fast))
    THEN << Cmd(NULL, "quietRun", i.name, "rdomain " \o ToString(Rdid(i.node)) \o " up") >>
    ELSE << >>

InitLink ==
    /\ nodePort = [ n \in Nodes |-> 0 ]
    /\ nodeIntfs = [ n \in Nodes |-> { } ]
    /\ portNames = [ n \in Nodes |-> << >> ]
    /\ intfs = << >>
    /\ links = << >>
    /\ cmds = << >>
    /\ pairCalls = << >>
    /\ last = [ op |-> "none", id |-> NoRef, raised |-> FALSE, first |-> FALSE,
                deleted |-> << >> ]
    /\ devs = << "lo0" >>

\* Link.__init__ / TCLink.__init__ / IFLink.__init__ / OVSLink.__init__ with
\* default ports, names and addresses
NewLink(variant, n1, n2, intf, fast) ==
    /\ Len(links) < MaxLinks
    /\ LET l     == Len(links) + 1
           patch == IsPatch(variant, n1, n2)
           cls   == EndClass(variant, intf, patch)
           p1    == newPort(nodePort, n1)
           port1 == PortsAfterNewPort(nodePort, n1)
           p2    == newPort(port1, n2)
           port2 == PortsAfterNewPort(port1, n2)
           name1 == intfName(n1, p1)
           name2 == intfName(n2, p2)
           id1   == Len(intfs) + 1
           id2   == Len(intfs) + 2
           i1    == NewIntf(cls, name1, n1, p1, l)
           i2    == NewIntf(cls, name2, n2, p2, l)
           call  == PairCall(patch, fast, name1, name2, n1, n2)
       IN  /\ nodePort' = port2
           /\ pairCalls' = pairCalls \o call
           /\ intfs' = intfs \o << i1, i2 >>
           /\ nodeIntfs' = addIntf(addIntf(nodeIntfs, n1, id1), n2, id2)
           /\ cmds' = cmds \o << MoveCmds(i1, fast) \o IntfInitCmds(i1).cmds,
                                  MoveCmds(i2, fast) \o IntfInitCmds(i2).cmds >>
           /\ links' = Append(links,
                  [ variant |-> variant, node1 |-> n1, node2 |-> n2,
                    intf1 |-> id1, intf2 |-> id2, fast |-> fast,
                    isPatchLink |-> patch, ends |-> << id1, id2 >>,
                    delCalled |-> FALSE,
                    placedBy |-> << PlacedBy(call, fast, n1, 1),
                                    PlacedBy(call, fast, n2, 2) >> ])
           /\ last' = [ op |-> "Link.__init__", id |-> l, raised |-> FALSE,
                        first |-> TRUE, deleted |-> << >> ]
    /\ UNCHANGED << portNames, devs, retryVars, shapeVars, allocVars >>

\* Intf.delete() of link.py and freebsd/intf.py: the destroy command carries
\* '-vnet <jid>' when the node is jailed; openbsd/intf.py: plain destroy.
\* the ifconfig call of delete(), through the class's own ifconfig
DeleteCmds(i) ==
    IF i.cls = "openbsd.Intf"
    THEN ifconfig(i, << "destroy" >>)
    ELSE ifconfig(i, << IF Jid(i.node) # NULL THEN "-vnet " \o Jid(i.node) ELSE "",
                        "destroy" >>)

\* what delete() leaves of the object: self.link = None
IntfAfterDeleteKeepsLink(i) == [ i EXCEPT !.ndel = @ + 1 ]
IntfAfterDelete(i) == [ i EXCEPT !.link = NoRef, !.ndel = @ + 1 ]

\* the state after delete() completed on the interfaces ds, in that order
Elems(ds) == { ds[k] : k \in 1..Len(ds) }

RECURSIVE TableAfterDeletes(_, _)
TableAfterDeletes(tab, ds) ==
    IF Len(ds) = 0 THEN tab
    ELSE TableAfterDeletes(delIntf(tab, intfs[ds[1]].node, ds[1]), Tail(ds))

RECURSIVE IntfsAfterDeletes(_, _)
IntfsAfterDeletes(is, ds) ==
    IF Len(ds) = 0 THEN is
    ELSE IntfsAfterDeletes([ is EXCEPT ![ds[1]] = IntfAfterDelete(@) ], Tail(ds))

ApplyDeletes(ds) ==
    /\ cmds' = [ id \in 1..Len(cmds) |->
           IF id \in Elems(ds) THEN cmds[id] \o DeleteCmds(intfs[id]).cmds
                               ELSE cmds[id] ]
    /\ intfs' = IntfsAfterDeletes(intfs, ds)
    /\ nodeIntfs' = TableAfterDeletes(nodeIntfs, ds)
    /\ portNames' = [ n \in Nodes |->
           [ k \in DOMAIN portNames[n] \
                   { intfs[d].name : d \in { e \in Elems(ds) :
                        intfs[e].cls = "openbsd.Intf" /\ intfs[e].node = n } }
             |-> portNames[n][k] ] ]

\* Intf.delete() called on interface id
IntfDelete(id) ==
    /\ id \in 1..Len(intfs)
    /\ intfs[id].ndel = 0
    /\ LET r == DeleteCmds(intfs[id])
       IN  /\ ApplyDeletes(IF r.raised THEN << >> ELSE << id >>)
           /\ last' = [ op |-> "Intf.delete", id |-> id, raised |-> r.raised,
                        first |-> TRUE,
                        deleted |-> IF r.raised THEN << >> ELSE << id >> ]
    /\ UNCHANGED << nodePort, links, pairCalls, devs, retryVars, shapeVars, allocVars >>

\* Link.delete(): self.intf1.delete(); self.intf1 = None;
\*                self.intf2.delete(); self.intf2 = None
\* the interfaces whose delete() completes before the call returns or raises
LinkDeleteDone(lk) ==
    IF lk.intf1 = NoRef \/ DeleteCmds(intfs[lk.intf1]).raised THEN << >>
    ELSE IF lk.intf2 = NoRef \/ DeleteCmds(intfs[lk.intf2]).raised
    THEN << lk.intf1 >>
    ELSE << lk.intf1, lk.intf2 >>

LinkDeleteRaises(lk) ==
    \/ lk.intf1 = NoRef
    \/ DeleteCmds(intfs[lk.intf1]).raised
    \/ lk.intf2 = NoRef
    \/ DeleteCmds(intfs[lk.intf2]).raised

LinkDelete(l) ==
    /\ l \in 1..Len(links)
    /\ LET lk   == links[l]
           done == LinkDeleteDone(lk)
       IN  /\ ApplyDeletes(done)
           /\ links' = [ links EXCEPT ![l] =
                  [ lk EXCEPT !.intf1 = IF Len(done) >= 1 THEN NoRef ELSE @,
                              !.intf2 = IF Len(done) >= 2 THEN NoRef ELSE @,
                              !.delCalled = TRUE ] ]
           /\ last' = [ op |-> "Link.delete", id |-> l,
                        raised |-> LinkDeleteRaises(lk),
                        first |-> ~lk.delCalled, deleted |-> done ]
    /\ UNCHANGED << nodePort, pairCalls, devs, retryVars, shapeVars, allocVars >>

NextLink ==
    \/ \E v \in LinkVariants, e \in LinkEnds, c \in IntfClasses :
          /\ (v # "Link" => c = "Intf")
          /\ NewLink(v, e[1], e[2], c, DefaultFast)
    \/ \E id \in 1..Len(intfs) : IntfDelete(id)
    \/ \E l \in 1..Len(links) : LinkDelete(l)

\* links made with and without fast
NextFast ==
    \/ \E v \in LinkVariants, e \in LinkEnds, c \in IntfClasses, fast \in BOOLEAN :
          /\ (v # "Link" => c = "Intf")
          /\ NewLink(v, e[1], e[2], c, fast)
    \/ \E l \in 1..Len(links) : LinkDelete(l)

(***************************************************************************)
(* Operations on one interface: rename, setIP, status, delete              *)
(***************************************************************************)

\* how many commands one interface hands to the runner
MaxIntfCmds == 4

\* new names handed to rename()
RenameNames == { "wan0", "wan1" }
\* setIP( ipstr, prefixLen=None ): combined form, bare address; no prefix
\* length (None) or one
IpStrings == { "10.0.0.1/8", "10.0.0.2" }
PrefixLens == { NULL, "24" }
\* what the system may have: only the loopback; the devices of the interface;
\* devices whose names begin like those of the interface
DevListings == { << "lo0" >>,
                 << "lo0", "h1-eth1", "s1-eth1", "pair1" >>,
                 << "lo0", "h1-eth10", "s1-eth10", "pair11" >> }

\* the output of `ifconfig -l`: the names on one line
IfconfigL(ds) == Join(ds)

\* the output of `ifconfig pair`: a block per pair(4) device, headed 'name: '
RECURSIVE IfconfigPair(_)
IfconfigPair(ds) ==
    IF Len(ds) = 0 THEN ""
    ELSE (IF Contains(ds[1], "pair")
          THEN ds[1] \o ": flags=8843<UP,BROADCAST,RUNNING,SIMPLEX,MULTICAST> "
          ELSE "")
         \o IfconfigPair(Tail(ds))

\* the record of a call on interface id: the object before the call, the
\* commands of the call, what it returned
Called(op, id, args, raised, ret, issued) ==
    [ op |-> op, id |-> id, raised |-> raised, first |-> TRUE, deleted |-> << >>,
      args |-> args, ret |-> ret, issued |-> issued, before |-> intfs[id],
      listing |-> devs ]

\* Intf.rename( newname ) of link.py and freebsd/intf.py: the device is renamed
\* by ifconfig, then self.name is set
BaseRename(i, newname) ==
    LET r == ifconfig(i, << "name", newname >>)
    IN  [ raised |-> r.raised, cmds |-> r.cmds,
          intf |-> IF r.raised THEN i ELSE [ i EXCEPT !.name = newname ] ]

\* Intf.rename( newname ) of openbsd/intf.py: self.name is set, the device
\* keeps its name and gets a description
PairRenameSetsRealname(i, newname) ==
    LET j == [ i EXCEPT !.name = newname, !.realname = newname ]
    IN  [ raised |-> FALSE,
          cmds |-> PairIfconfig(j, << "description", "\"" \o newname \o "\"" >>).cmds,
          intf |-> j ]
PairRename(i, newname) ==
    LET j == [ i EXCEPT !.name = newname ]
    IN  [ raised |-> FALSE,
          cmds |-> PairIfconfig(j, << "description", "\"" \o newname \o "\"" >>).cmds,
          intf |-> j ]

\* a rename() that leaves the entry of the old name in the table
PortNamesKeepOld(tab, i, newname) ==
    [ k \in DOMAIN tab \cup { newname } |-> IF k = newname THEN i.realname ELSE tab[k] ]

\* the alias table of the node after rename(): the old name leaves, the new
\* name maps to self.realname
PortNamesAfterRename(tab, i, newname) ==
    [ k \in (DOMAIN tab \ { i.name }) \cup { newname } |->
          IF k = newname THEN i.realname ELSE tab[k] ]

rename(i, newname) ==
    IF i.cls = "openbsd.Intf" THEN PairRename(i, newname) ELSE BaseRename(i, newname)

\* rename( newname ) called on interface id
IntfRename(id, newname) ==
    /\ id \in 1..Len(intfs)
    /\ Len(cmds[id]) < MaxIntfCmds
    /\ LET i == intfs[id]
           r == rename(i, newname)
       IN  /\ intfs' = [ intfs EXCEPT ![id] = r.intf ]
           /\ cmds' = [ cmds EXCEPT ![id] = @ \o r.cmds ]
           /\ portNames' = IF i.cls = "openbsd.Intf"
                           THEN [ portNames EXCEPT ![i.node] =
                                      PortNamesAfterRename(@, i, newname) ]
                           ELSE portNames
           /\ last' = Called("Intf.rename", id, << newname >>, r.raised,
                             IF r.raised THEN NULL ELSE newname, r.cmds)
    /\ UNCHANGED << nodePort, nodeIntfs, links, pairCalls, devs, retryVars, shapeVars, allocVars >>

\* Intf.setIP( ipstr, prefixLen )
SetIPNoCheck(i, ipstr, prefixLen) ==
    [ raised |-> FALSE,
      cmds |-> ifconfig(i, << ipstr \o "/" \o prefixLen >>).cmds,
      intf |-> [ i EXCEPT !.ip = ipstr, !.prefixLen = prefixLen ] ]
setIP(i, ipstr, prefixLen) ==
    IF Contains(ipstr, "/")
    THEN LET k == CHOOSE n \in 1..Len(ipstr) : SubSeq(ipstr, n, n) = "/"
             r == ifconfig(i, << ipstr, "up" >>)
         IN  [ raised |-> r.raised, cmds |-> r.cmds,
               intf |-> [ i EXCEPT !.ip = SubSeq(ipstr, 1, k - 1),
                                   !.prefixLen = SubSeq(ipstr, k + 1, Len(ipstr)) ] ]
    ELSE IF prefixLen = NULL
    THEN [ raised |-> TRUE, cmds |-> << >>, intf |-> i ]
    ELSE LET r == ifconfig(i, << ipstr \o "/" \o prefixLen >>)
         IN  [ raised |-> r.raised, cmds |-> r.cmds,
               intf |-> [ i EXCEPT !.ip = ipstr, !.prefixLen = prefixLen ] ]

\* setIP( ipstr, prefixLen ) called on interface id
IntfSetIP(id, ipstr, prefixLen) ==
    /\ id \in 1..Len(intfs)
    /\ Len(cmds[id]) < MaxIntfCmds
    /\ LET r == setIP(intfs[id], ipstr, prefixLen)
       IN  /\ intfs' = [ intfs EXCEPT ![id] = r.intf ]
           /\ cmds' = [ cmds EXCEPT ![id] = @ \o r.cmds ]
           /\ last' = Called("Intf.setIP", id, << ipstr, prefixLen >>, r.raised,
                             NULL, r.cmds)
    /\ UNCHANGED << nodePort, nodeIntfs, portNames, links, pairCalls, devs,
                    retryVars, shapeVars, allocVars >>

\* Intf.status() of link.py and freebsd/intf.py: `self.name in links`, with
\* links the output of `ifconfig -l`
BaseStatus(i, ds) ==
    [ raised |-> FALSE,
      cmds |-> << Cmd(i.node, "pexec", "", "ifconfig -l") >>,
      ret |-> IF Contains(IfconfigL(ds), i.name) THEN "OK" ELSE "MISSING" ]

\* Intf.status() of openbsd/intf.py: `self.realname + ':' in links`, with links
\* the output of `ifconfig pair`; None + ':' raises
PairStatus(i, ds) ==
    IF i.realname = NULL
    THEN [ raised |-> TRUE, ret |-> NULL,
           cmds |-> << Cmd(i.node, "pexec", "", "ifconfig pair") >> ]
    ELSE [ raised |-> FALSE,
           cmds |-> << Cmd(i.node, "pexec", "", "ifconfig pair") >>,
           ret |-> IF Contains(IfconfigPair(ds), i.realname \o ":")
                   THEN "OK" ELSE "MISSING" ]

status(i, ds) ==
    IF i.cls = "openbsd.Intf" THEN PairStatus(i, ds) ELSE BaseStatus(i, ds)

\* status() called on interface id
IntfStatus(id) ==
    /\ id \in 1..Len(intfs)
    /\ Len(cmds[id]) < MaxIntfCmds
    /\ LET r == status(intfs[id], devs)
       IN  /\ cmds' = [ cmds EXCEPT ![id] = @ \o r.cmds ]
           /\ last' = Called("Intf.status", id, << >>, r.raised, r.ret, r.cmds)
    /\ UNCHANGED << nodePort, nodeIntfs, portNames, intfs, links, pairCalls, devs,
                    retryVars, shapeVars, allocVars >>

\* the system's devices change behind the program's back
Relist(ds) ==
    /\ devs # ds
    /\ devs' = ds
    /\ last' = [ op |-> "relist", id |-> NoRef, raised |-> FALSE, first |-> FALSE,
                 deleted |-> << >> ]
    /\ UNCHANGED << nodePort, nodeIntfs, portNames, intfs, links, cmds, pairCalls,
                    retryVars, shapeVars, allocVars >>

\* the device names an interface is constructed over: orgName is passed by
\* callers of the pair-style backend only
OrgNames(cls) == IF cls = "openbsd.Intf" THEN { NULL, "pair1" } ELSE { NULL }

\* the alias-table entry of another interface of node n, made over pair3
OtherAliases(n) == intfName(n, 2) :> "pair3"

\* Intf( name, node=n, port=1, orgName=org ): one interface made directly on
\* node n
InitIntf ==
    \E cls \in IntfClasses, n \in { "h1", "s1" } :
      \E org \in OrgNames(cls) :
        LET port == 1
            i    == [ NewIntf(cls, intfName(n, port), n, port, NoRef)
                          EXCEPT !.realname = org, !.orgName = org ]
        IN  /\ nodePort = [ m \in Nodes |-> IF m = n THEN port + 1 ELSE 0 ]
            /\ nodeIntfs = addIntf([ m \in Nodes |-> { } ], n, 1)
            /\ portNames \in
                   { [ m \in Nodes |-> << >> ],
                     [ m \in Nodes |-> IF m = n /\ org # NULL
                                       THEN (i.name :> org) ELSE << >> ],
                     [ m \in Nodes |-> IF m = n /\ org # NULL
                                       THEN (i.name :> org) @@ OtherAliases(n)
                                       ELSE << >> ] }
            /\ intfs = << i >>
            /\ cmds = << IntfInitCmds(i).cmds >>
            /\ links = << >>
            /\ pairCalls = << >>
            /\ last = [ op |-> "none", id |-> NoRef, raised |-> FALSE,
                        first |-> FALSE, deleted |-> << >> ]
            /\ devs \in DevListings

NextIntf ==
    \/ \E id \in 1..Len(intfs), nn \in RenameNames : IntfRename(id, nn)
    \/ \E id \in 1..Len(intfs), ip \in IpStrings, pl \in PrefixLens :
          IntfSetIP(id, ip, pl)
    \/ \E id \in 1..Len(intfs) : IntfStatus(id)
    \/ \E id \in 1..Len(intfs) : IntfDelete(id)
    \/ \E ds \in DevListings : Relist(ds)

(***************************************************************************)
(* Intf.config and the methods it calls, on Intf and on OVSIntf            *)
(***************************************************************************)

\* the options of config( mac, ip, ifconfig, up ): not given (None), or given
MacOptions == { NULL, "00:00:00:00:00:01" }
IpOptions == { NULL, "10.0.0.1/8" }
UpOptions == { NULL, "True", "False" }
IfconfigOptions == { NULL, "mtu 1500" }
\* the arguments of a direct ifconfig( *args ) call
RawIfconfigArgs == { << >>, << "up" >>, << "mtu", "1500" >> }
\* what the runner prints for a command of one call
IfconfigOutputs == { "", "flags=8843<UP,BROADCAST,RUNNING> mtu 1500",
                     "ifconfig: interface does not exist" }

\* the outcome of a method: whether it raised, the commands it issued, what it
\* returned, the interface afterwards, the error reports
Outcome(raised, cs, ret, i, errs) ==
    [ raised |-> raised, cmds |-> cs, ret |-> ret, intf |-> i, errors |-> errs ]

\* what ifconfig( *args ) returns: nothing (None) from OVSIntf, else what the
\* runner printed
IfconfigReturn(i, args, out) ==
    LET r == ifconfig(i, args)
    IN  Outcome(r.raised, r.cmds, IF r.raised \/ r.cmds = << >> THEN NULL ELSE out,
                i, << >>)

\* Intf.setMAC( macstr ): self.mac is set, then ifconfig( 'down' ) +
\* ifconfig( 'ether', macstr, 'up' )
setMAC(i, macstr, out) ==
    LET j  == [ i EXCEPT !.mac = macstr ]
        r1 == IfconfigReturn(j, << "down" >>, out)
        r2 == IfconfigReturn(j, << "ether", macstr, "up" >>, out)
    IN  IF r1.raised THEN Outcome(TRUE, r1.cmds, NULL, j, << >>)
        ELSE IF r2.raised THEN Outcome(TRUE, r1.cmds \o r2.cmds, NULL, j, << >>)
        ELSE Outcome(FALSE, r1.cmds \o r2.cmds, r1.ret \o r2.ret, j, << >>)

\* an isUp( True ) that also fails when ifconfig returns nothing
IsUpNeedsOutput(i, setUp, out) ==
    LET r == IfconfigReturn(i, IF setUp THEN << "up" >> ELSE << >>, out)
    IN  IF r.raised THEN Outcome(TRUE, r.cmds, NULL, i, << >>)
        ELSE Outcome(FALSE, r.cmds, "False", i, << "error setting up" >>)
\* Intf.isUp( setUp ): with setUp, ifconfig( 'up' ) and success when nothing
\* came back; without, `"UP" in self.ifconfig()`
isUp(i, setUp, out) ==
    LET r == IfconfigReturn(i, IF setUp THEN << "up" >> ELSE << >>, out)
    IN  IF r.raised THEN Outcome(TRUE, r.cmds, NULL, i, << >>)
        ELSE IF setUp
        THEN IF r.ret # NULL /\ r.ret # ""
             THEN Outcome(FALSE, r.cmds, "False", i, << "error setting up" >>)
             ELSE Outcome(FALSE, r.cmds, "True", i, << >>)
        ELSE Outcome(FALSE, r.cmds,
                     IF Contains(r.ret, "UP") THEN "True" ELSE "False", i, << >>)

\* the state of config() between two setParam calls: the results so far, the
\* commands so far, the interface
ConfigStart(i) ==
    [ raised |-> FALSE, cmds |-> << >>, r |-> << >>, order |-> << >>, intf |-> i,
      errors |-> << >> ]

\* a setParam that gives every option an entry
SetParamAlways(c, name, value, o) ==
    IF c.raised THEN c
    ELSE IF o.raised
    THEN [ c EXCEPT !.raised = TRUE, !.cmds = @ \o o.cmds, !.intf = o.intf ]
    ELSE [ c EXCEPT !.cmds = @ \o o.cmds, !.intf = o.intf,
                    !.errors = @ \o o.errors,
                    !.order = Append(@, name),
                    !.r = [ k \in (DOMAIN c.r) \cup { name } |->
                              IF k = name THEN o.ret ELSE c.r[k] ] ]
\* Intf.setParam( results, method, name=value ): nothing when the value is
\* None, else the method is called and its result stored under the name; o
\* is the outcome of the method
setParam(c, name, value, o) ==
    IF c.raised \/ value = NULL THEN c
    ELSE IF o.raised
    THEN [ c EXCEPT !.raised = TRUE, !.cmds = @ \o o.cmds, !.intf = o.intf ]
    ELSE [ c EXCEPT !.cmds = @ \o o.cmds, !.intf = o.intf,
                    !.errors = @ \o o.errors,
                    !.order = Append(@, name),
                    !.r = [ k \in (DOMAIN c.r) \cup { name } |->
                              IF k = name THEN o.ret ELSE c.r[k] ] ]

\* Intf.config( mac, ip, ifconfig, up ): setParam for mac, ip, up, ifconfig
IntfConfigWith(i, mac, ip, up, ifc, out) ==
    LET c1 == setParam(ConfigStart(i), "mac", mac, setMAC(i, mac, out))
        s2 == setIP(c1.intf, ip, NULL)
        c2 == setParam(c1, "ip", ip,
                       Outcome(s2.raised, s2.cmds,
                               IF s2.cmds = << >> THEN NULL ELSE out, s2.intf, << >>))
        c3 == setParam(c2, "up", up, isUp(c2.intf, up = "True", out))
    IN  setParam(c3, "ifconfig", ifc, IfconfigReturn(c3.intf, << ifc >>, out))

\* the record of a call of this section
CalledWith(op, id, args, o, ret) ==
    [ op |-> op, id |-> id, raised |-> o.raised, first |-> TRUE, deleted |-> << >>,
      args |-> args, ret |-> ret, issued |-> o.cmds, before |-> intfs[id],
      errors |-> o.errors ]

\* one method called on interface id
IntfCall(id, op, args, o, ret) ==
    /\ id \in 1..Len(intfs)
    /\ Len(cmds[id]) < MaxIntfCmds
    /\ intfs' = [ intfs EXCEPT ![id] = o.intf ]
    /\ cmds' = [ cmds EXCEPT ![id] = @ \o o.cmds ]
    /\ last' = CalledWith(op, id, args, o, ret)
    /\ UNCHANGED << nodePort, nodeIntfs, portNames, links, pairCalls, devs,
                    retryVars, shapeVars, allocVars >>

\* config( mac=, ip=, up=, ifconfig= ) called on interface id
IntfConfigure(id, mac, ip, up, ifc, out) ==
    LET c == IntfConfigWith(intfs[id], mac, ip, up, ifc, out)
    IN  IntfCall(id, "Intf.config", << mac, ip, up, ifc >>, c,
                 IF c.raised THEN << >> ELSE << c.r, c.order >>)

\* isUp( setUp ) called on interface id
IntfIsUp(id, setUp, out) ==
    LET o == isUp(intfs[id], setUp, out)
    IN  IntfCall(id, "Intf.isUp", << setUp >>, o, o.ret)

\* setMAC( macstr ) called on interface id
IntfSetMAC(id, macstr, out) ==
    LET o == setMAC(intfs[id], macstr, out)
    IN  IntfCall(id, "Intf.setMAC", << macstr >>, o, o.ret)

\* ifconfig( *args ) called on interface id
IntfIfconfig(id, args, out) ==
    LET o == IfconfigReturn(intfs[id], args, out)
    IN  IntfCall(id, "Intf.ifconfig", args, o, o.ret)

\* Intf( name, node=s1, port=1 ) and OVSIntf( name, node=s1, port=1 ): one
\* interface made directly, with the default config()
ConfigClasses == { "Intf", "OVSIntf" }
InitConfig ==
    \E cls \in ConfigClasses :
        LET port == 1
            i    == NewIntf(cls, intfName("s1", port), "s1", port, NoRef)
        IN  /\ nodePort = [ m \in Nodes |-> IF m = "s1" THEN port + 1 ELSE 0 ]
            /\ nodeIntfs = addIntf([ m \in Nodes |-> { } ], "s1", 1)
            /\ portNames = [ m \in Nodes |-> << >> ]
            /\ intfs = << i >>
            /\ cmds = << IntfInitCmds(i).cmds >>
            /\ links = << >>
            /\ pairCalls = << >>
            /\ last = [ op |-> "Intf.__init__", id |-> 1,
                        raised |-> IntfInitCmds(i).raised,
                        first |-> TRUE, deleted |-> << >> ]
            /\ devs = << "lo0" >>

NextConfig ==
    \/ \E id \in 1..Len(intfs), mac \in MacOptions, ip \in IpOptions, up \in UpOptions,
          ifc \in IfconfigOptions, out \in IfconfigOutputs :
          IntfConfigure(id, mac, ip, up, ifc, out)
    \/ \E id \in 1..Len(intfs), setUp \in BOOLEAN, out \in IfconfigOutputs :
          IntfIsUp(id, setUp, out)
    \/ \E id \in 1..Len(intfs), mac \in MacOptions \ { NULL }, out \in IfconfigOutputs :
          IntfSetMAC(id, mac, out)
    \/ \E id \in 1..Len(intfs), args \in RawIfconfigArgs, out \in IfconfigOutputs :
          IntfIfconfig(id, args, out)
    \/ \E id \in 1..Len(intfs), ip \in IpStrings, pl \in PrefixLens :
          IntfSetIP(id, ip, pl)

(***************************************************************************)
(* Shaped interfaces: TCIntf and IFIntf                                    *)
(***************************************************************************)

\* how many keyword options one configure() call is given
MaxOptions == 2
\* TCIntf.bwParamMax
bwParamMax == 1000

\* an optional value: None, or a value
None == << >>
Some(v) == << v >>
IsNone(x) == x = << >>
Val(x) == x[1]
\* Python truth of an optional number: neither None nor 0
Truthy(x) == x # << >> /\ x[1] # 0

\* the values the options are given in the model; loss and bw include the
\* ends of their ranges and a value on either side
BwValues == { None, Some(-1), Some(0), Some(10), Some(1000), Some(1001) }
DelayValues == { None, Some(-1), Some(5) }
JitterValues == { None, Some(-1), Some(1) }
LossValues == { None, Some(-1), Some(0), Some(1), Some(50), Some(100), Some(101) }
QueueValues == { None, Some(100) }
SpeedupValues == { 0, 5 }
LatencyValues == { None, Some(20) }
\* IFIntf: w_q=0.005 (held in thousandths) and min_th=30
DefaultWq == 5
DefaultMinTh == 30
WqValues == { DefaultWq, 2000 }

\* config( bw=None, delay=None, jitter=None, loss=None, disable_gro=True,
\*         speedup=0, use_hfsc=False, use_tbf=False, latency_ms=None,
\*         enable_ecn=False, enable_red=False, enable_gred=False,
\*         max_queue_size=None, ... )
DefaultParams ==
    [ bw |-> None, delay |-> None, jitter |-> None, loss |-> None,
      disable_gro |-> TRUE, speedup |-> 0, use_hfsc |-> FALSE, use_tbf |-> FALSE,
      latency_ms |-> None, enable_ecn |-> FALSE, enable_red |-> FALSE,
      enable_gred |-> FALSE, max_queue_size |-> None,
      w_q |-> DefaultWq, min_th |-> DefaultMinTh, q_as_slots |-> TRUE ]

\* p with one keyword option passed explicitly
Overrides(p) ==
    { [ p EXCEPT !.bw = v ] : v \in BwValues }
    \cup { [ p EXCEPT !.delay = v ] : v \in DelayValues }
    \cup { [ p EXCEPT !.jitter = v ] : v \in JitterValues }
    \cup { [ p EXCEPT !.loss = v ] : v \in LossValues }
    \cup { [ p EXCEPT !.max_queue_size = v ] : v \in QueueValues }
    \cup { [ p EXCEPT !.speedup = v ] : v \in SpeedupValues }
    \cup { [ p EXCEPT !.latency_ms = v ] : v \in LatencyValues }
    \cup { [ p EXCEPT !.w_q = v ] : v \in WqValues }
    \cup { [ p EXCEPT !.disable_gro = v ] : v \in BOOLEAN }
    \cup { [ p EXCEPT !.use_hfsc = v ] : v \in BOOLEAN }
    \cup { [ p EXCEPT !.use_tbf = v ] : v \in BOOLEAN }
    \cup { [ p EXCEPT !.enable_ecn = v ] : v \in BOOLEAN }
    \cup { [ p EXCEPT !.enable_red = v ] : v \in BOOLEAN }
    \cup { [ p EXCEPT !.enable_gred = v ] : v \in BOOLEAN }

\* the keyword dictionaries with at most n options passed explicitly
RECURSIVE ParamsUpTo(_)
ParamsUpTo(n) ==
    IF n = 0 THEN { DefaultParams }
    ELSE UNION { Overrides(p) : p \in ParamsUpTo(n - 1) }

\* a command of a shaped interface: the text with its placeholders, the
\* numbers formatted into it, and (once run) what the runner printed
ShCmd(text, args) == [ text |-> text, args |-> args, out |-> "" ]

\* the result of a step of configure(): commands, error reports, the parent
\* handle for the next stage, and whether the step raised
Stage(cs, errs, parent) ==
    [ cmds |-> cs, errors |-> errs, parent |-> parent, raised |-> FALSE ]
StageRaised == [ cmds |-> << >>, errors |-> << >>, parent |-> "", raised |-> TRUE ]

\* TCIntf.bwCmds: the first test, `bw and ( bw < 0 or bw > self.bwParamMax )`
BwOutOfRange(bw) == Truthy(bw) /\ (Val(bw) < 0 \/ Val(bw) > bwParamMax)

\* the root discipline and class for bandwidth b, by strategy
TCRootCmds(b, use_hfsc, use_tbf, latency_ms) ==
    IF use_hfsc
    THEN << ShCmd("%s qdisc add dev %s root handle 5:0 hfsc default 1", << >>),
            ShCmd("%s class add dev %s parent 5:0 classid 5:1 hfsc sc rate %fMbit ul rate %fMbit",
                  << b, b >>) >>
    ELSE IF use_tbf
    THEN << ShCmd("%s qdisc add dev %s root handle 5: tbf rate %fMbit burst 15000 latency %fms",
                  << b, IF IsNone(latency_ms) THEN (15 * 8) \div b ELSE Val(latency_ms) >>) >>
    ELSE << ShCmd("%s qdisc add dev %s root handle 5:0 htb default 1", << >>),
            ShCmd("%s class add dev %s parent 5:0 classid 5:1 htb rate %fMbit burst 15k",
                  << b >>) >>

\* the ECN / RED discipline below the bandwidth class
TCRedCmds(b, enable_ecn, enable_red) ==
    IF enable_ecn
    THEN << ShCmd("%s qdisc add dev %s parent 5:1 handle 6: red limit 1000000 min 30000 max 35000 avpkt 1500 burst 20 bandwidth %fmbit probability 1 ecn",
                  << b >>) >>
    ELSE IF enable_red
    THEN << ShCmd("%s qdisc add dev %s parent 5:1 handle 6: red limit 1000000 min 30000 max 35000 avpkt 1500 burst 20 bandwidth %fmbit probability 1",
                  << b >>) >>
    ELSE << >>

\* TCIntf.bwCmds( bw, speedup, use_hfsc, use_tbf, latency_ms, enable_ecn,
\*                enable_red ) on a node of name nodeName
TCbwCmds(p, nodeName) ==
    IF BwOutOfRange(p.bw)
    THEN Stage(<< >>, << "bandwidth outside supported range" >>, " root ")
    ELSE IF IsNone(p.bw)
    THEN Stage(<< >>, << >>, " root ")
    ELSE LET b == IF p.speedup > 0 /\ SubSeq(nodeName, 1, 1) = "s"
                  THEN p.speedup ELSE Val(p.bw)
         IN  IF ~p.use_hfsc /\ p.use_tbf /\ IsNone(p.latency_ms) /\ b = 0
             THEN StageRaised    \* 15 * 8 / bw: ZeroDivisionError
             ELSE Stage(TCRootCmds(b, p.use_hfsc, p.use_tbf, p.latency_ms)
                            \o TCRedCmds(b, p.enable_ecn, p.enable_red),
                        << >>,
                        IF p.enable_ecn \/ p.enable_red THEN " parent 6: "
                                                        ELSE " parent 5:1 ")

\* TCIntf.delayCmds: the third test, `loss and ( loss < 0 or loss > 100 )`
BadLossNoUpperEnd(loss) == Truthy(loss) /\ Val(loss) < 0
BadLoss(loss) == Truthy(loss) /\ (Val(loss) < 0 \/ Val(loss) > 100)

\* the arguments of netem, in the order of the format string
NetemArgs(delay, jitter, loss, max_queue_size) ==
    (IF ~IsNone(delay) THEN << << "delay", Val(delay) >> >> ELSE << >>)
    \o (IF ~IsNone(jitter) THEN << << "jitter", Val(jitter) >> >> ELSE << >>)
    \o (IF ~IsNone(loss) THEN << << "loss", Val(loss) >> >> ELSE << >>)
    \o (IF ~IsNone(max_queue_size) THEN << << "limit", Val(max_queue_size) >> >>
                                   ELSE << >>)

\* TCIntf.delayCmds( parent, delay, jitter, loss, max_queue_size )
TCdelayCmds(parent, delay, jitter, loss, max_queue_size) ==
    IF Truthy(delay) /\ Val(delay) < 0
    THEN Stage(<< >>, << "negative delay" >>, parent)
    ELSE IF Truthy(jitter) /\ Val(jitter) < 0
    THEN Stage(<< >>, << "negative jitter" >>, parent)
    ELSE IF BadLoss(loss)
    THEN Stage(<< >>, << "bad loss percentage" >>, parent)
    ELSE LET netemargs == NetemArgs(delay, jitter, loss, max_queue_size)
         IN  IF netemargs # << >>
             THEN Stage(<< ShCmd("%s qdisc add dev %s " \o parent \o " handle 10: netem ",
                                 netemargs) >>,
                        << >>, " parent 10:1 ")
             ELSE Stage(<< >>, << >>, parent)

\* the optimisation of both config() methods: nothing to shape
NothingToShape(p) ==
    IsNone(p.bw) /\ ~Truthy(p.delay) /\ ~Truthy(p.loss) /\ IsNone(p.max_queue_size)

\* what `tc qdisc show dev` may print: a default discipline, or one set earlier
TcShowOutputs == { "qdisc pfifo_fast 0: root refcnt 2 bands 3 priomap 1 2 2 2",
                   "qdisc noqueue 0: root refcnt 2",
                   "qdisc htb 5: root refcnt 2 r2q 10 default 1" }

\* TCIntf.config: the command clearing the existing discipline
TCClearCmds(tcoutput) ==
    IF ~Contains(tcoutput, "priomap") /\ ~Contains(tcoutput, "noqueue")
    THEN << ShCmd("%s qdisc del dev %s root", << >>) >>
    ELSE << >>

\* IFIntf.bwCmds( bw, bw_units, enable_ecn, enable_red, enable_gred, w_q, min_th ):
\* one pipe configuration string '<b_arg> <q_arg>'; w_q is held in thousandths
IFbwCmds(p) ==
    LET bwBad  == Truthy(p.bw) /\ Val(p.bw) < 0
        b_arg  == IF ~bwBad /\ Truthy(p.bw)
                  THEN ShCmd("bw %dMbit/s", << Val(p.bw) >>) ELSE ShCmd("", << >>)
        qm_alg == IF p.enable_red THEN "red" ELSE IF p.enable_gred THEN "gred" ELSE ""
        qOk    == p.w_q >= 0 /\ p.w_q <= 1000 /\ p.min_th >= 0
        q_arg  == IF qm_alg # "" /\ qOk
                  THEN ShCmd(qm_alg \o " %s/%s/%s/1.0" \o (IF p.enable_ecn THEN " ecn" ELSE ""),
                             << p.w_q, p.min_th, 3 * p.min_th >>)
                  ELSE ShCmd("", << >>)
        errs   == (IF bwBad THEN << "bandwidth must be positive" >> ELSE << >>)
                  \o (IF qm_alg # "" /\ ~qOk THEN << "invalid RED parameters" >>
                      ELSE IF qm_alg = "" /\ p.enable_ecn
                      THEN << "cannot enable ECN without queuing discipline" >>
                      ELSE << >>)
    IN  Stage(<< ShCmd(b_arg.text \o " " \o q_arg.text, b_arg.args \o q_arg.args) >>,
              errs, "")

\* IFIntf.delayCmds: the drop probability handed to ipfw for a loss value:
\* `if loss > 1.0 and loss <= 100.0: loss = loss / 100.0`, as num/den
IFProb(loss) ==
    IF Val(loss) > 1 /\ Val(loss) <= 100
    THEN [ num |-> Val(loss), den |-> 100 ]
    ELSE [ num |-> Val(loss), den |-> 1 ]

\* IFIntf.delayCmds( delay, jitter, loss, max_queue_size, q_as_slots ):
\* the drop rule pl_cmd (empty text when there is none) and one pipe
\* configuration string '<d_arg> <q_arg>'; jitter is ignored
IFdelayCmds(delay, jitter, loss, max_queue_size, q_as_slots) ==
    LET lossBad  == Truthy(loss) /\ IFProb(loss).num < 0
        pl_cmd   == IF Truthy(loss) /\ ~lossBad
                    THEN ShCmd("ipfw add prob %s deny all from any to any",
                               << IFProb(loss).num, IFProb(loss).den >>)
                    ELSE ShCmd("", << >>)
        delayBad == Truthy(delay) /\ Val(delay) < 0
        d_arg    == IF ~delayBad /\ ~IsNone(delay) /\ Val(delay) > 0
                    THEN ShCmd("delay %sms", << Val(delay) >>) ELSE ShCmd("", << >>)
        qBad     == Truthy(max_queue_size) /\ Val(max_queue_size) < 0
        q_arg    == IF ~qBad /\ Truthy(max_queue_size)
                    THEN ShCmd("queue %s" \o (IF q_as_slots THEN "" ELSE "Kbytes"),
                               << Val(max_queue_size) >>)
                    ELSE ShCmd("", << >>)
        errs     == (IF lossBad THEN << "bad loss percentage" >> ELSE << >>)
                    \o (IF delayBad THEN << "negative delay" >> ELSE << >>)
                    \o (IF qBad THEN << "negative queue size" >> ELSE << >>)
    IN  [ pl_cmd |-> pl_cmd,
          cmds   |-> << ShCmd(d_arg.text \o " " \o q_arg.text, d_arg.args \o q_arg.args) >>,
          errors |-> errs ]

\* IFIntf.config: the delay handed to delayCmds
IFDelayValue(p) ==
    IF Truthy(p.latency_ms) /\ ~Truthy(p.delay) THEN p.latency_ms
    ELSE IF Truthy(p.delay) THEN p.delay
    ELSE None

\* IFIntf.prob( plcmd ): the drop rule in both directions
IFprob(pl_cmd) ==
    << ShCmd(pl_cmd.text \o " out via %s", pl_cmd.args),
       ShCmd(pl_cmd.text \o " in via %s", pl_cmd.args) >>

\* IFIntf.mk_pipe( direction ) with IFIntf.pipeNo = n
mk_pipe(n, direction) ==
    ShCmd("ipfw add pipe %d all from any to any " \o direction \o " via %s", << n >>)

\* IFIntf.mk_config( pipeno, cmd )
mk_config(pipeno, cmd) ==
    ShCmd("ipfw pipe %d config " \o cmd.text, << pipeno >> \o cmd.args)

\* IFIntf.ipfw( cmd ) with IFIntf.pipeNo = n: two pipes, then their configs
IFipfwOnePipe(n, cmd) ==
    << mk_pipe(n, "in"), mk_pipe(n, "out"), mk_config(n, cmd), mk_config(n, cmd) >>
IFipfw(n, cmd) ==
    << mk_pipe(n, "in"), mk_pipe(n + 1, "out"),
       mk_config(n, cmd), mk_config(n + 1, cmd) >>

\* the outputs the runner gives: nothing, or a complaint
ErrOut == "RTNETLINK answers: Invalid argument"

\* which of n commands fail: none, any one of them, or all
FailSets(n) == { { } } \cup { { k } : k \in 1..n } \cup { 1..n }

\* cs with the outputs of the commands at the positions off+1.. filled in
RunCmds(cs, F, off) ==
    [ i \in 1..Len(cs) |-> [ cs[i] EXCEPT !.out = IF (off + i) \in F THEN ErrOut ELSE "" ] ]

Outs(cs) == [ i \in 1..Len(cs) |-> cs[i].out ]

RECURSIVE ConcatOuts(_)
ConcatOuts(cs) == IF Len(cs) = 0 THEN "" ELSE cs[1].out \o ConcatOuts(Tail(cs))

\* a loop that stops reporting after the first complaint
CmdErrorsFirstOnly(outputs) ==
    IF \E i \in 1..Len(outputs) : outputs[i] # "" THEN << "command error" >> ELSE << >>

\* `for output in outputs: if output != '': error( ... )`
CmdErrors(outputs) ==
    LET bad == SelectSeq(outputs, LAMBDA o : o # "")
    IN  [ i \in 1..Len(bad) |-> "command error" ]

\* Intf.config( up=True ) inside a shaped config(): isUp( True )
UpCmd == ShCmd("ifconfig %s up", << >>)
UpErrors(up) == IF up.out # "" THEN << "error setting up" >> ELSE << >>

\* the record of one config() call
ConfigResult(cls, raised, ret, keys, issued, errors, tcoutputs, parent, shaped, bwStage, delayStage, pipes) ==
    [ called |-> TRUE, cls |-> cls, raised |-> raised, ret |-> ret, keys |-> keys,
      issued |-> issued, errors |-> errors, tcoutputs |-> tcoutputs,
      parent |-> parent, shaped |-> shaped,
      bwCmds |-> bwStage.cmds, bwErrors |-> bwStage.errors,
      bwParent |-> bwStage.parent,
      delayCmds |-> delayStage.cmds, delayErrors |-> delayStage.errors,
      pipes |-> pipes ]

NoStage == Stage(<< >>, << >>, "")

\* the commands config() will hand to the runner besides 'tc qdisc show'
\* and ethtool: ifconfig up, then the shaping commands
TCShapingClearLast(a, show) ==
    LET bw == TCbwCmds(a.p, a.node)
        dl == TCdelayCmds(bw.parent, a.p.delay, a.p.jitter, a.p.loss,
                          a.p.max_queue_size)
    IN  IF NothingToShape(a.p) \/ bw.raised THEN << >>
        ELSE bw.cmds \o dl.cmds \o TCClearCmds(show)
\* a config() that gives up all shaping at the first bad option
TCShapingStopsAtError(a, show) ==
    LET bw == TCbwCmds(a.p, a.node)
        dl == TCdelayCmds(bw.parent, a.p.delay, a.p.jitter, a.p.loss,
                          a.p.max_queue_size)
    IN  IF NothingToShape(a.p) \/ bw.raised \/ bw.errors # << >> \/ dl.errors # << >>
        THEN << >>
        ELSE TCClearCmds(show) \o bw.cmds \o dl.cmds
TCShaping(a, show) ==
    LET bw == TCbwCmds(a.p, a.node)
        dl == TCdelayCmds(bw.parent, a.p.delay, a.p.jitter, a.p.loss,
                          a.p.max_queue_size)
    IN  IF NothingToShape(a.p) \/ bw.raised THEN << >>
        ELSE TCClearCmds(show) \o bw.cmds \o dl.cmds

\* TCIntf.config( **params ) with `tc qdisc show` printing `show` and the
\* commands at the positions F printing a complaint
TCconfig(a, show, F) ==
    LET up    == RunCmds(<< UpCmd >>, F, 0)
        gro   == IF a.p.disable_gro
                 THEN << ShCmd("ethtool -K %s gro off", << >>) >> ELSE << >>
        bw    == TCbwCmds(a.p, a.node)
        dl    == TCdelayCmds(bw.parent, a.p.delay, a.p.jitter, a.p.loss,
                             a.p.max_queue_size)
        shw   == << [ ShCmd("%s qdisc show dev %s", << >>) EXCEPT !.out = show ] >>
        ran   == RunCmds(TCShaping(a, show), F, 1)
    IN  IF NothingToShape(a.p)
        THEN ConfigResult("TCIntf", FALSE, "None", { }, up \o gro, UpErrors(up[1]),
                          << >>, "", FALSE, NoStage, NoStage, << >>)
        ELSE IF bw.raised
        THEN ConfigResult("TCIntf", TRUE, "raised", { }, up \o gro \o shw,
                          UpErrors(up[1]), << >>, "", TRUE, NoStage, NoStage, << >>)
        ELSE ConfigResult("TCIntf", FALSE, "dict", { "up", "tcoutputs", "parent" },
                          up \o gro \o shw \o ran,
                          UpErrors(up[1]) \o bw.errors \o dl.errors
                              \o CmdErrors(Outs(ran)),
                          Outs(ran), dl.parent, TRUE, bw, dl, << >>)

\* the commands of IFIntf.config after ifconfig up, with IFIntf.pipeNo = n
IFShaping(a, n) ==
    LET bw == IFbwCmds(a.p)
        dl == IFdelayCmds(IFDelayValue(a.p), a.p.jitter, a.p.loss,
                          a.p.max_queue_size, a.p.q_as_slots)
    IN  IF NothingToShape(a.p) THEN << >>
        ELSE (IF dl.pl_cmd.text # "" THEN IFprob(dl.pl_cmd) ELSE << >>)
             \o IFipfw(n, bw.cmds[1]) \o IFipfw(n + 2, dl.cmds[1])

\* IFIntf.config( **params ) with IFIntf.pipeNo = n
IFconfig(a, n, F) ==
    LET up    == RunCmds(<< UpCmd >>, F, 0)
        bw    == IFbwCmds(a.p)
        dl    == IFdelayCmds(IFDelayValue(a.p), a.p.jitter, a.p.loss,
                             a.p.max_queue_size, a.p.q_as_slots)
        plr   == dl.pl_cmd.text # ""
        np    == IF plr THEN 2 ELSE 0
        ran   == RunCmds(IFShaping(a, n), F, 1)
        \* prob() has no return statement: its entry in outputs is None
        outs  == (IF plr THEN << NULL >> ELSE << >>)
                 \o << ConcatOuts(SubSeq(ran, np + 1, np + 4)),
                       ConcatOuts(SubSeq(ran, np + 5, np + 8)) >>
    IN  IF NothingToShape(a.p)
        THEN ConfigResult("IFIntf", FALSE, "None", { }, up, UpErrors(up[1]),
                          << >>, "", FALSE, NoStage, NoStage, << >>)
        ELSE ConfigResult("IFIntf", FALSE, "dict", { "up", "tcoutputs" },
                          up \o ran,
                          UpErrors(up[1]) \o bw.errors \o dl.errors \o CmdErrors(outs),
                          outs, "", TRUE, bw,
                          Stage(dl.cmds, dl.errors, ""), << n, n + 1, n + 2, n + 3 >>)

\* IFIntf.pipeNo = 1
FirstPipeNo == 1
\* how many configure() calls that set up pipes are followed
MaxShapings == 2

(***************************************************************************)
(* The shared counters: IFIntf.pipeNo and Intf.index of the pair backend   *)
(***************************************************************************)

\* Intf.index = 0
FirstIndex == 0
\* how many numbers one caller takes from the counters
MaxAllocs == 2
\* how many calls of the pair factory are followed
MaxPairs == 2

\* the callers of the allocators
Callers == { "t1", "t2" }
\* the counters: IFIntf.pipeNo (mk_pipe) and Intf.index (Intf.next)
Counters == { "pipe", "pair" }

\* a number handed out: by which allocator, to whom
Handed(kind, n, by) == [ kind |-> kind, n |-> n, by |-> by ]

\* no caller is inside an allocation
AllocIdle ==
    /\ index = FirstIndex
    /\ handed = << >>
    /\ thr = [ t \in Callers |-> [ pc |-> "idle", kind |-> "pipe", n |-> 0, tmp |-> 0,
                                    done |-> 0 ] ]

\* ---- one caller at a time ----
\* an Intf.next() that forgets to advance
NextIndexStuck(idx) == idx
\* Intf.next(): `idx = Intf.index; Intf.index += 1; return idx`: the counter
\* afterwards
NextIndex(idx) == idx + 1

\* what the runner prints for the two create commands of makeIntfPair
PairOutputs == { << "", "" >>,
                 << "ifconfig: SIOCIFCREATE: File exists", "" >>,
                 << "", "ifconfig: SIOCSIFPAIR: Device busy" >> }
\* the hardware addresses makeIntfPair is given
PairAddrs == { NULL, "00:00:00:00:00:01" }

\* the create command of one end: 'ifconfig pairN create [rdomain R]
\* [lladdr A]', then ' up' or ' patch pairM up'
PairCreateCmd(pair, node, addr, rest) ==
    "ifconfig " \o pair \o " create"
    \o (IF node # NULL /\ Rdid(node) # 0 THEN " rdomain " \o ToString(Rdid(node)) ELSE "")
    \o (IF addr # NULL THEN " lladdr " \o addr ELSE "")
    \o rest

\* deleteCmd( intf, node ) for an interface the node does not know
deleteCmd(intf) == "ifconfig " \o intf \o " destroy"

\* makeIntfPair( intf1, intf2, addr1, addr2, node1, node2, deleteIntfs ) of the
\* pair-style backend, the runner printing outs for the two create commands
makeIntfPair(intf1, intf2, addr1, addr2, node1, node2, deleteIntfs, outs) ==
    /\ index + 2 <= FirstIndex + 2 * MaxPairs
    /\ LET idx1  == index
           idx2  == NextIndex(index)
           pair1 == "pair" \o ToString(idx1)
           pair2 == "pair" \o ToString(idx2)
           dels  == IF deleteIntfs THEN << deleteCmd(intf1), deleteCmd(intf2) >> ELSE << >>
           cmd1  == PairCreateCmd(pair1, node1, addr1, " up")
           cmd2  == PairCreateCmd(pair2, node2, addr2, " patch " \o pair1 \o " up")
       IN  /\ index' = NextIndex(NextIndex(index))
           /\ handed' = handed \o << Handed("pair", idx1, "t1"), Handed("pair", idx2, "t1") >>
           /\ pairCalls' = Append(pairCalls,
                  [ intf1 |-> intf1, intf2 |-> intf2, node1 |-> node1, node2 |-> node2,
                    deleteIntfs |-> deleteIntfs ])
           \* a device exists when its create command printed nothing
           /\ devs' = devs \o (IF outs[1] = "" THEN << pair1 >> ELSE << >>)
                           \o (IF outs[2] = "" THEN << pair2 >> ELSE << >>)
           /\ last' = [ op |-> "makeIntfPair", id |-> NoRef, raised |-> FALSE,
                        first |-> TRUE, deleted |-> << >>,
                        ret |-> << pair1, pair2 >>,
                        issued |-> dels \o << cmd1, cmd2 >>,
                        outputs |-> outs ]
    /\ UNCHANGED << nodePort, nodeIntfs, portNames, intfs, links, cmds, thr,
                    retryVars, shapeVars >>

\* IFIntf.ipfw( cmd ) called by IFIntf instance `by`: two mk_pipe calls
Ipfw(by, cmd) ==
    /\ pipeNo + 2 <= FirstPipeNo + 2 * MaxShapings
    /\ LET cs == IFipfw(pipeNo, cmd)
       IN  /\ pipeNo' = cs[2].args[1] + 1
           /\ handed' = handed \o << Handed("pipe", cs[1].args[1], by),
                                     Handed("pipe", cs[2].args[1], by) >>
           /\ last' = [ op |-> "IFIntf.ipfw", id |-> NoRef, raised |-> FALSE,
                        first |-> TRUE, deleted |-> << >>,
                        ret |-> << >>, issued |-> cs, outputs |-> << >> ]
    /\ UNCHANGED << nodePort, nodeIntfs, portNames, intfs, links, cmds, pairCalls,
                    devs, shArgs, shRes, index, thr, retryVars >>

\* the pipe configuration ipfw() is given
PipeConfigText == IFbwCmds([ DefaultParams EXCEPT !.bw = Some(10) ]).cmds[1]

\* the calls of the pair factory followed: as Link.__init__ makes them with
\* and without fast, between the host and a switch
PairCallArgs ==
    { [ node1 |-> "h1", node2 |-> "s1", addr1 |-> "00:00:00:00:00:01", deleteIntfs |-> FALSE ],
      [ node1 |-> NULL, node2 |-> NULL, addr1 |-> NULL, deleteIntfs |-> TRUE ] }

NextAlloc ==
    \/ \E a \in PairCallArgs, outs \in PairOutputs :
          makeIntfPair(intfName("h1", 0), intfName("s1", 0), a.addr1, NULL,
                       a.node1, a.node2, a.deleteIntfs, outs)
    \/ \E by \in Callers : Ipfw(by, PipeConfigText)

\* ---- two callers, nothing serialising them ----
\* the counter a caller is working on
Counter(kind) == IF kind = "pipe" THEN pipeNo ELSE index

\* an increment that cannot be interrupted
StoreCurrentPlusOne(cur, tmp) == cur + 1
\* `counter += 1`: what is stored is the value loaded, plus one
Store(cur, tmp) == tmp + 1

\* `n = IFIntf.pipeNo` / `idx = Intf.index`: the value to hand out is read
AllocRead(t, kind) ==
    /\ thr[t].pc = "idle"
    /\ thr[t].done < MaxAllocs
    /\ thr' = [ thr EXCEPT ![t].pc = "read", ![t].kind = kind, ![t].n = Counter(kind) ]
    /\ UNCHANGED << pipeNo, index, handed, shArgs, shRes, retryVars, linkVars >>

\* `+= 1`, first half: the counter is loaded
AllocLoad(t) ==
    /\ thr[t].pc = "read"
    /\ thr' = [ thr EXCEPT ![t].pc = "loaded", ![t].tmp = Counter(thr[t].kind) ]
    /\ UNCHANGED << pipeNo, index, handed, shArgs, shRes, retryVars, linkVars >>

\* `+= 1`, second half: the sum is stored; the number read is returned
AllocStore(t) ==
    /\ thr[t].pc = "loaded"
    /\ thr' = [ thr EXCEPT ![t].pc = "idle", ![t].done = @ + 1 ]
    /\ pipeNo' = IF thr[t].kind = "pipe" THEN Store(pipeNo, thr[t].tmp) ELSE pipeNo
    /\ index' = IF thr[t].kind = "pair" THEN Store(index, thr[t].tmp) ELSE index
    /\ handed' = Append(handed, Handed(thr[t].kind, thr[t].n, t))
    /\ UNCHANGED << shArgs, shRes, retryVars, linkVars >>

NextRace ==
    \/ \E t \in Callers, kind \in Counters : AllocRead(t, kind)
    \/ \E t \in Callers : AllocLoad(t)
    \/ \E t \in Callers : AllocStore(t)

\* a host and a switch for TCIntf (the speedup option looks at the node's
\* name); IFIntf never looks at its node
ShapeOn == { << "TCIntf", "h1" >>, << "TCIntf", "s1" >>, << "IFIntf", "h1" >> }

\* the calls of configure() examined: class, node, and at most MaxOptions
\* keyword options
ShapeInputs ==
    { [ cls |-> on[1], node |-> on[2], p |-> p ] :
          on \in ShapeOn, p \in ParamsUpTo(MaxOptions) }

ShapeIdle ==
    /\ shArgs = [ cls |-> "TCIntf", node |-> "h1", p |-> DefaultParams ]
    /\ shRes = [ called |-> FALSE ]
    /\ pipeNo = FirstPipeNo

InitShape ==
    /\ shArgs \in ShapeInputs
    /\ shRes = [ called |-> FALSE ]
    /\ pipeNo = FirstPipeNo

\* configure() on a TCIntf
TCConfigure(show) ==
    /\ shArgs.cls = "TCIntf"
    /\ \E F \in FailSets(1 + Len(TCShaping(shArgs, show))) :
           shRes' = TCconfig(shArgs, show, F)
    /\ UNCHANGED << shArgs, pipeNo, retryVars, linkVars, allocVars >>

\* configure() on an IFIntf
IFConfigure ==
    /\ shArgs.cls = "IFIntf"
    /\ NothingToShape(shArgs.p) \/ pipeNo + 4 <= FirstPipeNo + 4 * MaxShapings
    /\ \E F \in FailSets(1 + Len(IFShaping(shArgs, pipeNo))) :
           shRes' = IFconfig(shArgs, pipeNo, F)
    /\ pipeNo' = IF NothingToShape(shArgs.p) THEN pipeNo ELSE pipeNo + 4
    /\ UNCHANGED << shArgs, retryVars, linkVars, allocVars >>

NextShape ==
    \/ \E show \in TcShowOutputs : TCConfigure(show)
    \/ IFConfigure

\* configure() calls on the TCIntf of a switch with a bandwidth in range, with and without
\* delay, loss, ECN, RED and each bandwidth strategy
OrderInputs ==
    { [ cls |-> "TCIntf", node |-> "s1",
        p |-> [ DefaultParams EXCEPT !.bw = bw, !.delay = d, !.loss = l,
                                     !.speedup = sp, !.use_hfsc = h, !.use_tbf = t,
                                     !.enable_ecn = e, !.enable_red = r ] ] :
          bw \in { Some(10), Some(bwParamMax) },
          d \in { None, Some(5) }, l \in { None, Some(0), Some(1), Some(100), Some(101) },
          sp \in SpeedupValues, h \in BOOLEAN, t \in BOOLEAN,
          e \in BOOLEAN, r \in BOOLEAN }

InitOrder ==
    /\ InitRetry /\ InitLink /\ AllocIdle
    /\ shArgs \in OrderInputs
    /\ shRes = [ called |-> FALSE ]
    /\ pipeNo = FirstPipeNo

NextOrder == \E show \in TcShowOutputs : TCConfigure(show)

(***************************************************************************)
(* IFLink: a link of two IFIntf, and shape_link()                          *)
(***************************************************************************)

\* how many commands one end of an IFLink hands to the runner
MaxEndCmds == 12

\* the shaping options an IFLink is made with, or shape_link() is called with
ShapeLinkParams ==
    { DefaultParams,
      [ DefaultParams EXCEPT !.loss = Some(50) ],
      [ DefaultParams EXCEPT !.bw = Some(10) ],
      [ DefaultParams EXCEPT !.bw = Some(10), !.delay = Some(5) ] }

\* the runner in these calls: every command succeeds, or every one complains
FailAllOrNone(n) == { { }, 1..n }

\* a shaping command in the log of interface i
AsCmd(i, c) ==
    [ node |-> i.node, via |-> "cmd", dev |-> i.name, args |-> c.text, nums |-> c.args ]

\* the log entries of IFIntf.config( **p ) on interface i with IFIntf.pipeNo = n:
\* ifconfig up, then the commands of the shaping
IFConfigCmds(i, p, n) ==
    LET sh == IFShaping([ cls |-> "IFIntf", node |-> i.node, p |-> p ], n)
    IN  IntfConfig(i).cmds \o [ k \in 1..Len(sh) |-> AsCmd(i, sh[k]) ]

\* the error reports of that call when the commands at F complain
IFConfigErrors(i, p, n, F) ==
    IFconfig([ cls |-> "IFIntf", node |-> i.node, p |-> p ], n, F).errors

\* IFIntf.pipeNo after that call
PipeNoAfter(p, n) == IF NothingToShape(p) THEN n ELSE n + 4

\* IFLink.__init__: self.ifint, the end on a node that is not jailed
Ifint(n1, n2, id1, id2) ==
    IF Jid(n1) = NULL THEN id1 ELSE IF Jid(n2) = NULL THEN id2 ELSE NoRef

\* IFLink( node1, node2, **p ): Link.__init__ with cls1 = cls2 = IFIntf and
\* params1 = params2 = p, then ifint and onlypl
NewIFLink(n1, n2, p) ==
    /\ Len(links) < MaxLinks
    /\ pipeNo + (IF NothingToShape(p) THEN 0 ELSE 8) <= FirstPipeNo + 4 * MaxShapings
    /\ LET l     == Len(links) + 1
           p1    == newPort(nodePort, n1)
           port1 == PortsAfterNewPort(nodePort, n1)
           p2    == newPort(port1, n2)
           port2 == PortsAfterNewPort(port1, n2)
           name1 == intfName(n1, p1)
           name2 == intfName(n2, p2)
           id1   == Len(intfs) + 1
           id2   == Len(intfs) + 2
           i1    == NewIntf("IFIntf", name1, n1, p1, l)
           i2    == NewIntf("IFIntf", name2, n2, p2, l)
           pn1   == PipeNoAfter(p, pipeNo)
           ifint == Ifint(n1, n2, id1, id2)
           call  == PairCall(FALSE, DefaultFast, name1, name2, n1, n2)
       IN  /\ nodePort' = port2
           /\ pairCalls' = pairCalls \o call
           /\ intfs' = intfs \o << i1, i2 >>
           /\ nodeIntfs' = addIntf(addIntf(nodeIntfs, n1, id1), n2, id2)
           /\ cmds' = cmds \o << IFConfigCmds(i1, p, pipeNo), IFConfigCmds(i2, p, pn1) >>
           /\ pipeNo' = PipeNoAfter(p, pn1)
           /\ links' = Append(links,
                  [ variant |-> "IFLink", node1 |-> n1, node2 |-> n2,
                    intf1 |-> id1, intf2 |-> id2, fast |-> DefaultFast,
                    isPatchLink |-> FALSE, ends |-> << id1, id2 >>,
                    delCalled |-> FALSE, ifint |-> ifint, onlypl |-> (ifint = NoRef),
                    placedBy |-> << PlacedBy(call, DefaultFast, n1, 1),
                                    PlacedBy(call, DefaultFast, n2, 2) >> ])
           /\ \E F1 \in FailAllOrNone(Len(IFConfigCmds(i1, p, pipeNo))),
                 F2 \in FailAllOrNone(Len(IFConfigCmds(i2, p, pn1))) :
                 last' = [ op |-> "IFLink.__init__", id |-> l, raised |-> FALSE,
                           first |-> TRUE, deleted |-> << >>,
                           args |-> << p >>, target |-> NoRef,
                           errors |-> IFConfigErrors(i1, p, pipeNo, F1)
                                      \o IFConfigErrors(i2, p, pn1, F2),
                           warned |-> (ifint = NoRef),
                           issued |-> [ id \in { id1, id2 } |->
                                          IF id = id1 THEN IFConfigCmds(i1, p, pipeNo)
                                                      ELSE IFConfigCmds(i2, p, pn1) ] ]
    /\ UNCHANGED << portNames, devs, shArgs, shRes, retryVars, allocVars >>

\* IFLink.shape_link( ifnet, **p ): the interface config() is called on, if any
ShapeTarget(lk, ifnet) ==
    IF lk.onlypl THEN ifnet
    ELSE IF ifnet = NoRef THEN lk.ifint ELSE ifnet

\* shape_link( ifnet, **p ) called on link l
ShapeLink(l, ifnet, p) ==
    /\ l \in 1..Len(links)
    /\ links[l].variant = "IFLink"
    /\ "ifint" \in DOMAIN links[l]
    /\ ifnet \in { NoRef, links[l].ends[1], links[l].ends[2] }
    /\ LET t == ShapeTarget(links[l], ifnet)
       IN  IF t = NoRef
           THEN /\ last' = [ op |-> "IFLink.shape_link", id |-> l, raised |-> FALSE,
                             first |-> TRUE, deleted |-> << >>,
                             args |-> << ifnet, p >>, target |-> NoRef,
                             errors |-> << "must supply an endpoint to constrain" >>,
                             warned |-> FALSE, issued |-> << >> ]
                /\ UNCHANGED << cmds, pipeNo >>
           ELSE LET new == IFConfigCmds(intfs[t], p, pipeNo)
                IN  /\ Len(cmds[t]) + Len(new) <= MaxEndCmds
                    /\ PipeNoAfter(p, pipeNo) <= FirstPipeNo + 4 * MaxShapings
                    /\ cmds' = [ cmds EXCEPT ![t] = @ \o new ]
                    /\ pipeNo' = PipeNoAfter(p, pipeNo)
                    /\ \E F \in FailAllOrNone(Len(new)) :
                          last' = [ op |-> "IFLink.shape_link", id |-> l,
                                    raised |-> FALSE, first |-> TRUE,
                                    deleted |-> << >>,
                                    args |-> << ifnet, p >>, target |-> t,
                                    errors |-> IFConfigErrors(intfs[t], p, pipeNo, F),
                                    warned |-> FALSE,
                                    issued |-> [ id \in { t } |-> new ] ]
    /\ UNCHANGED << nodePort, nodeIntfs, portNames, intfs, links, pairCalls, devs,
                    shArgs, shRes, retryVars, allocVars >>

NextIFLink ==
    \/ \E e \in LinkEnds, p \in ShapeLinkParams : NewIFLink(e[1], e[2], p)
    \/ \E l \in 1..Len(links), ifnet \in 0..Len(intfs), p \in ShapeLinkParams :
          ShapeLink(l, ifnet, p)

(***************************************************************************)
(* TCLink and IFLink: both ends made from one dictionary of options        *)
(***************************************************************************)

\* the port1 / port2 arguments: none, or a port the counters never reach
PortArgs == { None, Some(7) }

\* a dictionary of keyword options: the shaping options and, once it is set,
\* the key 'port'
Dict(p) == [ p |-> p, port |-> None ]

\* the heap of Link.__init__: the dictionaries, and what params1 and params2
\* refer to; TCLink and IFLink pass one dictionary as both
SameDict(p) == [ objs |-> << Dict(p) >>, params1 |-> 1, params2 |-> 1 ]

\* a constructor without the copy
KeepShared(h) == h
\* `if params2 is params1: params2 = dict( params1 )`
CopyIfShared(h) ==
    IF h.params2 = h.params1
    THEN [ h EXCEPT !.objs = Append(@, h.objs[h.params1]), !.params2 = Len(h.objs) + 1 ]
    ELSE h

\* `if portK is not None: paramsK[ 'port' ] = portK`
SetPort(h, ref, port) ==
    IF port # None THEN [ h EXCEPT !.objs[ref].port = port ] ELSE h

\* `if 'port' not in paramsK: paramsK[ 'port' ] = nodeK.newPort()`: the heap
\* and the port counters afterwards
DefaultPort(hp, ref, n) ==
    IF hp.h.objs[ref].port = None
    THEN [ h |-> [ hp.h EXCEPT !.objs[ref].port = Some(newPort(hp.ports, n)) ],
           ports |-> PortsAfterNewPort(hp.ports, n) ]
    ELSE hp

\* Link.__init__, from the defaulting of params1 and params2 to the ports
LinkParams(h0, port1, port2, n1, n2, ports) ==
    LET h1 == CopyIfShared(h0)
        h2 == SetPort(h1, h1.params1, port1)
        h3 == SetPort(h2, h2.params2, port2)
        a  == DefaultPort([ h |-> h3, ports |-> ports ], h3.params1, n1)
    IN  DefaultPort(a, a.h.params2, n2)

\* the interface class of TCLink and of IFLink
ShapingClass(variant) == IF variant = "TCLink" THEN "TCIntf" ELSE "IFIntf"

\* the log entries of config( **p ) of the shaping class on interface i
ShapedConfigCmds(i, p, n, show) ==
    IF i.cls = "IFIntf" THEN IFConfigCmds(i, p, n)
    ELSE LET r == TCconfig([ cls |-> "TCIntf", node |-> i.node, p |-> p ], show, { }).issued
         IN  [ k \in 1..Len(r) |-> AsCmd(i, r[k]) ]

\* TCLink( node1, node2, port1, port2, **p ) and IFLink( ... ), every command
\* succeeding
NewShapedLink(variant, n1, n2, port1, port2, p, show) ==
    /\ Len(links) < MaxLinks
    /\ variant = "IFLink" =>
           pipeNo + (IF NothingToShape(p) THEN 0 ELSE 8) <= FirstPipeNo + 4 * MaxShapings
    /\ LET l     == Len(links) + 1
           cls   == ShapingClass(variant)
           hp    == LinkParams(SameDict(p), port1, port2, n1, n2, nodePort)
           d1    == hp.h.objs[hp.h.params1]
           d2    == hp.h.objs[hp.h.params2]
           id1   == Len(intfs) + 1
           id2   == Len(intfs) + 2
           i1    == NewIntf(cls, intfName(n1, Val(d1.port)), n1, Val(d1.port), l)
           i2    == NewIntf(cls, intfName(n2, Val(d2.port)), n2, Val(d2.port), l)
           pn1   == IF cls = "IFIntf" THEN PipeNoAfter(d1.p, pipeNo) ELSE pipeNo
           pn2   == IF cls = "IFIntf" THEN PipeNoAfter(d2.p, pn1) ELSE pipeNo
           c1    == ShapedConfigCmds(i1, d1.p, pipeNo, show)
           c2    == ShapedConfigCmds(i2, d2.p, pn1, show)
           ifint == Ifint(n1, n2, id1, id2)
           call  == PairCall(FALSE, DefaultFast, i1.name, i2.name, n1, n2)
       IN  /\ nodePort' = hp.ports
           /\ pairCalls' = pairCalls \o call
           /\ intfs' = intfs \o << i1, i2 >>
           /\ nodeIntfs' = addIntf(addIntf(nodeIntfs, n1, id1), n2, id2)
           /\ cmds' = cmds \o << c1, c2 >>
           /\ pipeNo' = pn2
           /\ links' = Append(links,
                  [ variant |-> variant, node1 |-> n1, node2 |-> n2,
                    intf1 |-> id1, intf2 |-> id2, fast |-> DefaultFast,
                    isPatchLink |-> FALSE, ends |-> << id1, id2 >>,
                    delCalled |-> FALSE, ifint |-> ifint, onlypl |-> (ifint = NoRef),
                    placedBy |-> << PlacedBy(call, DefaultFast, n1, 1),
                                    PlacedBy(call, DefaultFast, n2, 2) >> ])
           /\ last' = [ op |-> "ShapedLink.__init__", id |-> l, raised |-> FALSE,
                        first |-> TRUE, deleted |-> << >>,
                        args |-> << port1, port2, p >>,
                        params |-> << d1.p, d2.p >>,
                        newPorts |-> << newPort(nodePort, n1),
                                        newPort(IF port1 = None
                                                THEN PortsAfterNewPort(nodePort, n1)
                                                ELSE nodePort, n2) >>,
                        issued |-> << c1, c2 >> ]
    /\ UNCHANGED << portNames, devs, shArgs, shRes, retryVars, allocVars >>

\* the options a TCLink or an IFLink is made with
ShapedLinkParams ==
    { DefaultParams,
      [ DefaultParams EXCEPT !.bw = Some(10), !.delay = Some(5) ],
      [ DefaultParams EXCEPT !.bw = Some(10), !.speedup = 5 ] }

\* the nodes it is made between: host and switch, two switches, the host twice
ShapedLinkEnds == { << "h1", "s1" >>, << "s1", "s2" >>, << "h1", "h1" >> }

NextShapedLink ==
    \/ \E v \in { "TCLink", "IFLink" }, e \in ShapedLinkEnds, port1 \in PortArgs,
          port2 \in PortArgs, p \in ShapedLinkParams, show \in TcShowOutputs :
          \* an IFIntf never asks for the discipline shown
          /\ v = "IFLink" => show = "qdisc noqueue 0: root refcnt 2"
          /\ NewShapedLink(v, e[1], e[2], port1, port2, p, show)
    \/ \E l \in 1..Len(links) : LinkDelete(l)

(***************************************************************************)
(* Specifications                                                          *)
(***************************************************************************)

Init == InitRetry /\ InitLink /\ ShapeIdle /\ AllocIdle

Next == NextLink

Spec == Init /\ [][Next]_vars

SpecRetry == Init /\ [][NextRetry]_vars

InitOneIntf == InitRetry /\ InitIntf /\ ShapeIdle /\ AllocIdle

SpecIntf == InitOneIntf /\ [][NextIntf]_vars

InitOneConfig == InitRetry /\ InitConfig /\ ShapeIdle /\ AllocIdle

SpecConfig == InitOneConfig /\ [][NextConfig]_vars

SpecIFLink == Init /\ [][NextIFLink]_vars
SpecFast == Init /\ [][NextFast]_vars

SpecShapedLink == Init /\ [][NextShapedLink]_vars

InitShaped == InitRetry /\ InitLink /\ InitShape /\ AllocIdle

SpecShape == InitShaped /\ [][NextShape]_vars

SpecOrder == InitOrder /\ [][NextOrder]_vars

SpecAlloc == Init /\ [][NextAlloc]_vars

SpecRace == Init /\ [][NextRace]_vars

\* ---- observations on the log of one retry() call ----
Events(e) == { i \in 1..Len(rlog) : rlog[i].ev = e }
NAttempts == Cardinality(Events("cmd"))
NSleeps == Cardinality(Events("sleep"))
NGaveUp == Cardinality(Events("gaveup"))
CmdIdx == Events("cmd")
\* an attempt failed iff its command printed something
EveryAttemptFailed == \A i \in CmdIdx : rlog[i].out # ""
SomeAttemptSucceeded == \E i \in CmdIdx : rlog[i].out = ""
RetryOver == rpc \in { "returned", "exited" }
\* between two consecutive attempts there is exactly one sleep
OneSleepBetweenAttempts ==
    \A i, j \in CmdIdx :
        (i < j /\ ~\E k \in CmdIdx : i < k /\ k < j)
            => Cardinality({ s \in Events("sleep") : i < s /\ s < j }) = 1


\* C1: when every move attempt fails, retry makes exactly retries+1 attempts
\* (4 for the default budget of 3) with one sleep between consecutive
\* attempts, and only after the last of them reports giving up and exits;
\* it never returns normally and never gives up earlier.
C1_AllFailMeansRPlus1Attempts ==
    EveryAttemptFailed =>
        /\ rpc # "returned"
        /\ NAttempts <= rargs.retries + 1
        /\ OneSleepBetweenAttempts
        /\ NGaveUp > 0 => rpc = "exited"
        /\ rpc = "exited" =>
              /\ NAttempts = rargs.retries + 1
              /\ NSleeps = rargs.retries
              /\ NGaveUp = 1
              /\ rlog[Len(rlog) - 1].ev = "gaveup"
              /\ rlog[Len(rlog)].ev = "exit"
              /\ \A i \in CmdIdx : i < Len(rlog) - 1

C1_Witness ==
    /\ rpc = "exited"
    /\ EveryAttemptFailed
    /\ rargs.retries = DefaultRetries
    /\ NAttempts = 4
    /\ NSleeps = 3

\* C2 (as claimed): retry exits only if every attempt failed; once an attempt
\* succeeded, the last permitted one included, retry makes no further
\* attempt, reports nothing, does not exit and returns to its caller.
C2_SuccessNeverExits ==
    /\ rpc = "exited" => EveryAttemptFailed
    /\ (RetryOver /\ SomeAttemptSucceeded) => (rpc = "returned" /\ NGaveUp = 0)

\* ---- observations on links and their two ends ----
LinkIds == 1..Len(links)
IntfIds == 1..Len(intfs)
End1(l) == intfs[links[l].ends[1]]
End2(l) == intfs[links[l].ends[2]]
\* the link an interface was made by, and the node it was made on
MadeBy(id) == CHOOSE l \in LinkIds : id \in { links[l].ends[1], links[l].ends[2] }
MadeOn(id) == IF id = links[MadeBy(id)].ends[1] THEN links[MadeBy(id)].node1
                                                ELSE links[MadeBy(id)].node2

\* C3 (as claimed): for every Link variant the first call of Link.delete()
\* deletes interface 1 and then interface 2, each once, completes without
\* raising, and leaves intf1 and intf2 None.
C3_FirstDeleteNullsBothEnds ==
    (last.op = "Link.delete" /\ last.first) =>
        /\ ~last.raised
        /\ last.deleted = links[last.id].ends
        /\ links[last.id].intf1 = NoRef
        /\ links[last.id].intf2 = NoRef

\* C4: a Link made with default ports and names has exactly two interfaces,
\* one on each of its nodes, whose names are non-empty, have the form
\* <node>-eth<port>, and differ from each other (also when both ends are on
\* the same node).
C4_TwoDistinctCanonicalNames ==
    /\ Len(intfs) = 2 * Len(links)
    /\ \A l \in LinkIds :
          /\ links[l].ends[1] # links[l].ends[2]
          /\ End1(l).node = links[l].node1
          /\ End2(l).node = links[l].node2
          /\ End1(l).name # "" /\ End2(l).name # ""
          /\ End1(l).name = links[l].node1 \o "-eth" \o ToString(End1(l).port)
          /\ End2(l).name = links[l].node2 \o "-eth" \o ToString(End2(l).port)
          /\ End1(l).name # End2(l).name

C4_Witness ==
    \E l \in LinkIds : links[l].node1 = links[l].node2 /\ End1(l).name = "h1-eth0"
                       /\ End2(l).name = "h1-eth1"

\* C5 (as claimed): after Intf.delete() returned, the interface's node
\* reference and its link reference are both None.
C5_DeleteNullsNodeAndLink ==
    \A id \in IntfIds :
        intfs[id].ndel > 0 => (intfs[id].node = NULL /\ intfs[id].link = NoRef)

\* C5 (amended): after Intf.delete() returned, on the base, jail-style and
\* pair-style backends, the interface's link reference is None; its node
\* reference is not cleared: it still names the node the interface was made on.
C5_DeleteNullsLinkKeepsNode ==
    \A id \in IntfIds :
        intfs[id].ndel > 0 =>
            /\ intfs[id].link = NoRef
            /\ intfs[id].node # NULL
            /\ intfs[id].node = MadeOn(id)

C5_Witness ==
    \E id \in IntfIds :
        /\ last.op = "Intf.delete" /\ last.id = id /\ ~last.raised
        /\ intfs[id].ndel = 1
        /\ intfs[id].cls = "openbsd.Intf"
        /\ Jid(intfs[id].node) # NULL

\* C6: over the life of a patch link (an OVSLink between two OVSSwitch nodes),
\* construction and deletion included, neither endpoint hands any command to
\* the command runner - so no address-configuration and no destroy command -
\* and the pair factory is not called for it.
C6_PatchLinkIssuesNothing ==
    \A l \in LinkIds :
        links[l].isPatchLink =>
            /\ cmds[links[l].ends[1]] = << >>
            /\ cmds[links[l].ends[2]] = << >>
            /\ \A k \in 1..Len(pairCalls) :
                  /\ pairCalls[k].intf1 \notin { End1(l).name, End2(l).name }
                  /\ pairCalls[k].intf2 \notin { End1(l).name, End2(l).name }

C6_Witness ==
    \E l \in LinkIds :
        /\ links[l].isPatchLink
        /\ links[l].node1 # links[l].node2
        /\ links[l].delCalled

\* ---- observations of a configure() call ----

\* the last configure() call was made on an interface of class cls
Configured(cls) == shRes.called /\ shRes.cls = cls

\* the call passed no option besides those of keys
OnlyGiven(keys) ==
    \A k \in (DOMAIN DefaultParams) \ keys : shArgs.p[k] = DefaultParams[k]

\* the reports that come from checking the options, not from running commands
IsValidationError(e) == e \notin { "command error", "error setting up" }
ValidationErrors == SelectSeq(shRes.errors, IsValidationError)

\* how many reports of one kind the call made
NErrors(kind) == Cardinality({ i \in 1..Len(shRes.errors) : shRes.errors[i] = kind })

\* the positions, among the commands handed to the runner, of those whose
\* text contains t
IssuedWith(t) == { i \in 1..Len(shRes.issued) : Contains(shRes.issued[i].text, t) }

\* command c was handed to the runner
WasIssued(c) ==
    \E i \in 1..Len(shRes.issued) :
        shRes.issued[i].text = c.text /\ shRes.issued[i].args = c.args

InSeq(x, sq) == \E i \in 1..Len(sq) : sq[i] = x

\* C7 (as claimed): configure(bw=b) on a TCIntf, for 0 < b <= 1000, issues
\* root bandwidth commands carrying b and reports no validation error; for any
\* other b (b <= 0, b = 0 included, or b > 1000) it issues no bandwidth command
\* and reports exactly one validation error.
C7_BwInOpenRangeOrOneError ==
    (Configured("TCIntf") /\ OnlyGiven({ "bw" }) /\ ~IsNone(shArgs.p.bw)) =>
        LET b == Val(shArgs.p.bw)
        IN  IF 0 < b /\ b <= bwParamMax
            THEN /\ \E i \in IssuedWith(" root handle 5") : TRUE
                 /\ \E i \in 1..Len(shRes.bwCmds) :
                        /\ InSeq(b, shRes.bwCmds[i].args)
                        /\ WasIssued(shRes.bwCmds[i])
                 /\ ValidationErrors = << >>
            ELSE /\ shRes.bwCmds = << >>
                 /\ IssuedWith(" root handle 5") = { }
                 /\ IssuedWith("class add") = { }
                 /\ Len(ValidationErrors) = 1

\* C8: in TCIntf.delayCmds, reached with delay and jitter valid, a loss p with
\* 0 <= p <= 100 gives exactly one netem command, chained under the parent the
\* bandwidth stage left and carrying loss p, and no error; a loss p < 0 or
\* p > 100 gives no command and exactly one error.
C8_LossInClosedRangeOrOneError ==
    (/\ Configured("TCIntf") /\ shRes.shaped /\ ~shRes.raised
     /\ ~IsNone(shArgs.p.loss)
     /\ ~(Truthy(shArgs.p.delay) /\ Val(shArgs.p.delay) < 0)
     /\ ~(Truthy(shArgs.p.jitter) /\ Val(shArgs.p.jitter) < 0)) =>
        LET p == Val(shArgs.p.loss)
        IN  IF 0 <= p /\ p <= 100
            THEN /\ Len(shRes.delayCmds) = 1
                 /\ Contains(shRes.delayCmds[1].text, "netem")
                 /\ Contains(shRes.delayCmds[1].text, shRes.bwParent)
                 /\ InSeq(<< "loss", p >>, shRes.delayCmds[1].args)
                 /\ WasIssued(shRes.delayCmds[1])
                 /\ Cardinality(IssuedWith("netem")) = 1
                 /\ shRes.parent = " parent 10:1 "
                 /\ shRes.delayErrors = << >>
            ELSE /\ shRes.delayCmds = << >>
                 /\ IssuedWith("netem") = { }
                 /\ shRes.parent = shRes.bwParent
                 /\ shRes.delayErrors = << "bad loss percentage" >>

C8_Witness ==
    /\ Configured("TCIntf") /\ shRes.shaped
    /\ shArgs.p.loss = Some(0) /\ shArgs.p.bw = Some(10)
    /\ Len(shRes.delayCmds) = 1
    /\ shRes.delayCmds[1].args = << << "loss", 0 >> >>
    /\ shRes.errors = << >>

\* C9 (as claimed): configure() on an IFIntf with a loss p, 0 < p <= 100,
\* installs the drop rule once per direction (out via and in via the device)
\* with probability p/100, ahead of every pipe command; with p < 0 or p > 100
\* it installs no drop rule and reports exactly one loss error.
C9_DropRulesScaledOrOneError ==
    (Configured("IFIntf") /\ shRes.shaped /\ Truthy(shArgs.p.loss)) =>
        LET p     == Val(shArgs.p.loss)
            rules == IssuedWith("ipfw add prob")
            pipes == IssuedWith("pipe")
        IN  IF 0 < p /\ p <= 100
            THEN /\ Cardinality(rules) = 2
                 /\ Cardinality(rules \cap IssuedWith(" out via ")) = 1
                 /\ Cardinality(rules \cap IssuedWith(" in via ")) = 1
                 /\ \A i \in rules : shRes.issued[i].args = << p, 100 >>
                 /\ \A i \in rules, j \in pipes : i < j
            ELSE /\ rules = { }
                 /\ NErrors("bad loss percentage") = 1

\* C10 (as claimed): on TCIntf and on IFIntf, configure(enable_ecn=True) with
\* no bandwidth, RED or GRED reports exactly one error, that ECN cannot be
\* enabled without a queuing discipline, and issues no discipline command and
\* no pipe command.
C10_EcnAloneReportsOneError ==
    (/\ shRes.called /\ OnlyGiven({ "enable_ecn" }) /\ shArgs.p.enable_ecn) =>
        /\ ValidationErrors = << "cannot enable ECN without queuing discipline" >>
        /\ IssuedWith("qdisc add") = { }
        /\ IssuedWith("pipe") = { }

\* the output `tc qdisc show` gave in the last configure() call
ShownDiscipline == shRes.issued[CHOOSE i \in IssuedWith("qdisc show") : TRUE].out

\* every command whose text contains t1 was issued before every one whose
\* text contains t2
IssuedBefore(t1, t2) == \A i \in IssuedWith(t1), j \in IssuedWith(t2) : i < j

\* C11: TCIntf.config with a bandwidth in range and a valid delay or loss
\* issues, in this order: the command deleting the existing root discipline
\* (if and only if `tc qdisc show` printed neither "priomap" nor "noqueue"),
\* the root bandwidth discipline (with its class, for htb and hfsc), the ECN/RED
\* discipline if asked for, and exactly one netem command.  The bandwidth
\* discipline sits at the root, the ECN/RED discipline under 5:1, netem under
\* 6: when there is an ECN/RED discipline and under 5:1 otherwise, and the
\* parent returned is the one netem exposes, 10:1.
C11_StagesInOrderAndChained ==
    (/\ Configured("TCIntf") /\ shRes.shaped /\ ~shRes.raised
     /\ Truthy(shArgs.p.bw) /\ ~BwOutOfRange(shArgs.p.bw)
     /\ ~IsNone(shArgs.p.delay) \/ ~IsNone(shArgs.p.loss)
     /\ shRes.delayErrors = << >>) =>
        LET red == shArgs.p.enable_ecn \/ shArgs.p.enable_red
        IN  /\ Cardinality(IssuedWith("qdisc show")) = 1
            /\ (IssuedWith("qdisc del") # { }) <=>
                   (~Contains(ShownDiscipline, "priomap")
                    /\ ~Contains(ShownDiscipline, "noqueue"))
            /\ Cardinality(IssuedWith("qdisc del")) <= 1
            /\ Cardinality(IssuedWith(" root handle 5")) = 1
            /\ Cardinality(IssuedWith("classid 5:1")) =
                   (IF ~shArgs.p.use_hfsc /\ shArgs.p.use_tbf THEN 0 ELSE 1)
            /\ Cardinality(IssuedWith("handle 6: red")) = (IF red THEN 1 ELSE 0)
            /\ Cardinality(IssuedWith("handle 10: netem")) = 1
            /\ IssuedBefore("qdisc show", "qdisc del")
            /\ IssuedBefore("qdisc del", " root handle 5")
            /\ IssuedBefore(" root handle 5", "classid 5:1")
            /\ IssuedBefore("classid 5:1", "handle 6: red")
            /\ IssuedBefore(" root handle 5", "handle 6: red")
            /\ IssuedBefore("handle 6: red", "handle 10: netem")
            /\ IssuedBefore(" root handle 5", "handle 10: netem")
            /\ IssuedBefore("classid 5:1", "handle 10: netem")
            /\ \A i \in IssuedWith("handle 6: red") :
                   Contains(shRes.issued[i].text, " parent 5:1 ")
            /\ \A i \in IssuedWith("handle 10: netem") :
                   Contains(shRes.issued[i].text,
                            IF red THEN " parent 6: " ELSE " parent 5:1 ")
            /\ shRes.parent = " parent 10:1 "

C11_Witness ==
    /\ Configured("TCIntf") /\ shRes.shaped
    /\ shArgs.p.bw = Some(10) /\ shArgs.p.delay = Some(5) /\ shArgs.p.loss = Some(1)
    /\ shArgs.p.enable_ecn
    /\ IssuedWith("qdisc del") # { }
    /\ Len(shRes.issued) = 8
    /\ shRes.errors = << >>

\* ---- observations of a call on one interface ----

\* the last call was `op`, on interface id
LastWas(op, id) == last.op = op /\ last.id = id

\* the device the k-th command of interface id was aimed at
Target(id, k) == cmds[id][k].dev

\* the device an interface stands for: the real name on the pair-style
\* backend, the name elsewhere
DeviceOf(i) == IF i.cls = "openbsd.Intf" THEN i.realname ELSE i.name

\* C12 (as claimed): on the pair-style backend, after rename() the interface's
\* name is the new name and its real device name is the one it had at
\* construction; and delete() on a renamed interface aims its destroy command
\* at the real device name, never at the logical name.
C12_RenameKeepsRealNameDeleteTargetsIt ==
    \A id \in IntfIds :
        intfs[id].cls = "openbsd.Intf" =>
            /\ (LastWas("Intf.rename", id) =>
                   /\ intfs[id].name = last.args[1]
                   /\ intfs[id].realname = intfs[id].orgName)
            /\ (LastWas("Intf.delete", id) /\ intfs[id].name \in RenameNames) =>
                   LET k == Len(cmds[id])
                   IN  /\ cmds[id][k].args = "destroy"
                       /\ Target(id, k) = intfs[id].orgName
                       /\ Target(id, k) # intfs[id].name

\* C13: setIP( ipstr ) with no '/' in ipstr and no prefix length raises, hands
\* no command to the runner, and leaves the interface - its stored address and
\* prefix length included - as it was before the call.
C13_SetIPWithoutPrefixRaises ==
    \A id \in IntfIds :
        (/\ LastWas("Intf.setIP", id)
         /\ ~Contains(last.args[1], "/")
         /\ last.args[2] = NULL) =>
            /\ last.raised
            /\ last.issued = << >>
            /\ intfs[id].ip = last.before.ip
            /\ intfs[id].prefixLen = last.before.prefixLen
            /\ intfs[id] = last.before

C13_Witness ==
    \E id \in IntfIds :
        /\ LastWas("Intf.setIP", id)
        /\ last.args = << "10.0.0.2", NULL >>
        /\ last.raised
        /\ intfs[id].ip = "10.0.0.1" /\ intfs[id].prefixLen = "8"

\* C14 (as claimed): a setIP call that returns, in the combined form or with an
\* explicit prefix length, stores the address and the prefix and hands the
\* runner exactly one ifconfig command, which carries address/prefix and 'up'.
C14_SetIPStoresAndBringsUp ==
    \A id \in IntfIds :
        (LastWas("Intf.setIP", id) /\ ~last.raised) =>
            /\ intfs[id].ip # NULL /\ intfs[id].prefixLen # NULL
            /\ intfs[id].ip \o "/" \o intfs[id].prefixLen =
                   (IF Contains(last.args[1], "/") THEN last.args[1]
                    ELSE last.args[1] \o "/" \o last.args[2])
            /\ Len(last.issued) = 1
            /\ Contains(last.issued[1].args,
                        intfs[id].ip \o "/" \o intfs[id].prefixLen)
            /\ Contains(last.issued[1].args, " up")

\* C15 (as claimed): status() returns "OK" if a device named like the
\* interface (by its real name on the pair-style backend) is in the node's
\* current listing and "MISSING" if not, and leaves the interface unchanged.
C15_StatusOKIffDevicePresent ==
    \A id \in IntfIds :
        LastWas("Intf.status", id) =>
            /\ ~last.raised
            /\ last.ret \in { "OK", "MISSING" }
            /\ (last.ret = "OK") <=> InSeq(DeviceOf(last.before), last.listing)
            /\ intfs[id] = last.before

\* the positions of the filter rules and of the pipe configurations among the
\* commands of the last configure() call, for pipe number n
StartsWith(str, t) == Len(str) >= Len(t) /\ SubSeq(str, 1, Len(t)) = t
EndsWith(str, t) == Len(str) >= Len(t) /\ SubSeq(str, Len(str) - Len(t) + 1, Len(str)) = t
PipeRules == { i \in 1..Len(shRes.issued) : StartsWith(shRes.issued[i].text, "ipfw add pipe") }
PipeConfigs == { i \in 1..Len(shRes.issued) : StartsWith(shRes.issued[i].text, "ipfw pipe %d config") }
RulesOf(n) == { i \in PipeRules : shRes.issued[i].args[1] = n }
ConfigsOf(n) == { i \in PipeConfigs : shRes.issued[i].args[1] = n }
TheOne(S) == CHOOSE x \in S : TRUE

\* the pipes n (inbound) and n + 1 (outbound) each have one filter rule, of
\* their direction, and one configuration, the same for both
PipePairSetUp(n) ==
    /\ Cardinality(RulesOf(n)) = 1 /\ Cardinality(RulesOf(n + 1)) = 1
    /\ \A i \in RulesOf(n) : EndsWith(shRes.issued[i].text, " in via %s")
    /\ \A i \in RulesOf(n + 1) : EndsWith(shRes.issued[i].text, " out via %s")
    /\ Cardinality(ConfigsOf(n)) = 1 /\ Cardinality(ConfigsOf(n + 1)) = 1
    /\ shRes.issued[TheOne(ConfigsOf(n))].text = shRes.issued[TheOne(ConfigsOf(n + 1))].text
    /\ Tail(shRes.issued[TheOne(ConfigsOf(n))].args)
           = Tail(shRes.issued[TheOne(ConfigsOf(n + 1))].args)
    /\ \A i \in RulesOf(n) \cup RulesOf(n + 1),
          j \in ConfigsOf(n) \cup ConfigsOf(n + 1) : i < j

\* C16 (as claimed): an IFIntf.config call that applies shaping advances
\* IFIntf.pipeNo by exactly two, installs one filter rule per direction into
\* those two pipes and gives both pipes the same configuration.
C16_ConfigureTakesTwoPipes ==
    (Configured("IFIntf") /\ shRes.shaped) =>
        /\ pipeNo = shRes.pipes[1] + 2
        /\ Cardinality(PipeRules) = 2
        /\ PipePairSetUp(shRes.pipes[1])

\* C16 (amended): an IFIntf.config call that applies shaping calls ipfw() twice,
\* with the bandwidth string and with the delay string, and so advances
\* IFIntf.pipeNo by exactly four; each of the two ipfw() calls takes two fresh
\* consecutive pipe numbers, installs one inbound rule into the first and one
\* outbound rule into the second, and gives its two pipes the same
\* configuration.
C16_ConfigureTakesTwoPipePairs ==
    (Configured("IFIntf") /\ shRes.shaped) =>
        LET n == shRes.pipes[1]
        IN  /\ pipeNo = n + 4
            /\ shRes.pipes = << n, n + 1, n + 2, n + 3 >>
            /\ Cardinality(PipeRules) = 4
            /\ Cardinality(PipeConfigs) = 4
            /\ PipePairSetUp(n)
            /\ PipePairSetUp(n + 2)
            /\ \A i \in ConfigsOf(n), j \in RulesOf(n + 2) : i < j

C16_Witness ==
    /\ Configured("IFIntf") /\ shRes.shaped
    /\ shArgs.p.bw = Some(10) /\ shArgs.p.delay = Some(5)
    /\ shRes.pipes = << 5, 6, 7, 8 >>
    /\ pipeNo = 9
    /\ shRes.issued[TheOne(ConfigsOf(5))].text
           # shRes.issued[TheOne(ConfigsOf(7))].text

\* ---- observations of an IFLink ----

IFLinkIds == { l \in LinkIds : links[l].variant = "IFLink" /\ "ifint" \in DOMAIN links[l] }

\* a command that makes a pipe or configures one
IsPipeCmd(c) ==
    StartsWith(c.args, "ipfw add pipe") \/ StartsWith(c.args, "ipfw pipe %d config")

\* a pipe configuration that carries a bandwidth, a delay or a queue size
IsShapingPipeCmd(c) ==
    /\ StartsWith(c.args, "ipfw pipe %d config")
    /\ \/ Contains(c.args, "bw %d") \/ Contains(c.args, "delay %s")
       \/ Contains(c.args, "queue %s")

\* the commands the last call issued for interface id
IssuedFor(id) == IF id \in DOMAIN last.issued THEN last.issued[id] ELSE << >>

Isolated(n) == Jid(n) # NULL

\* C17 (as claimed): an IFLink between two jailed nodes reports the loss-only
\* warning when it is made, and no shape_link call on it issues a pipe
\* configuration carrying a bandwidth, a delay or a queue size for either end.
C17_BothIsolatedMeansLossOnly ==
    \A l \in IFLinkIds :
        (Isolated(links[l].node1) /\ Isolated(links[l].node2)) =>
            /\ (last.op = "IFLink.__init__" /\ last.id = l) => last.warned
            /\ (last.op = "IFLink.shape_link" /\ last.id = l) =>
                   \A id \in { links[l].ends[1], links[l].ends[2] } :
                       \A k \in 1..Len(IssuedFor(id)) :
                           ~IsShapingPipeCmd(IssuedFor(id)[k])

\* C18 (as claimed): neither making an IFLink with shaping options nor
\* shape_link() without an endpoint issues a pipe command for an end whose node
\* is jailed; shape_link() without an endpoint configures interface 1 if node 1
\* is not jailed, else interface 2 if node 2 is not jailed, and if both are
\* jailed it reports an error and configures nothing.
C18_PipesOnlyOutsideJails ==
    \A l \in IFLinkIds :
        (/\ last.id = l
         /\ \/ last.op = "IFLink.__init__"
            \/ last.op = "IFLink.shape_link" /\ last.args[1] = NoRef) =>
            /\ \A id \in { links[l].ends[1], links[l].ends[2] } :
                   Isolated(intfs[id].node) =>
                       \A k \in 1..Len(IssuedFor(id)) : ~IsPipeCmd(IssuedFor(id)[k])
            /\ last.op = "IFLink.shape_link" =>
                   IF ~Isolated(links[l].node1)
                   THEN last.target = links[l].ends[1]
                   ELSE IF ~Isolated(links[l].node2)
                   THEN last.target = links[l].ends[2]
                   ELSE /\ last.target = NoRef
                        /\ Len(last.errors) = 1
                        /\ DOMAIN last.issued = { }

\* C19 (as claimed): config() of TCIntf and of IFIntf returns a mapping from
\* option name to result for every combination of options, never None, also
\* when none of bw, delay, loss, max_queue_size is given; when shaping is
\* applied the mapping holds the list of command outputs and, for TCIntf, the
\* final parent.
C19_ConfigureReturnsMapping ==
    (shRes.called /\ ~shRes.raised) =>
        /\ shRes.ret = "dict"
        /\ "up" \in shRes.keys
        /\ shRes.shaped =>
               /\ "tcoutputs" \in shRes.keys
               /\ shRes.cls = "TCIntf" => "parent" \in shRes.keys

\* ---- the fast flag ----
PairCallOf(l) ==
    { k \in 1..Len(pairCalls) : pairCalls[k].intf1 = End1(l).name }
EndNode(l, k) == IF k = 1 THEN links[l].node1 ELSE links[l].node2

\* C20 as stated: a link made with fast has the pair factory place no end and
\* the construction of the interface place each end, and every end of every
\* link whose node has a context of its own is placed into it by exactly one
\* of the two steps
C20_FastLeavesPlacementToInterface ==
    \A l \in 1..Len(links) : \A k \in 1..2 :
        InNamespace(EndNode(l, k)) =>
            /\ links[l].fast => links[l].placedBy[k] = { "Intf.__init__" }
            /\ Cardinality(links[l].placedBy[k]) = 1

\* C20, amended: a link made with fast hands both nodes to the pair factory,
\* without the deletion of old devices, and gives the interfaces a move
\* function that does nothing, so that the factory places each end whose node
\* has a context of its own; a link made without fast hands the factory no
\* node and the construction of the interface places such an end; an end on
\* a node of the root context is placed by neither step, and no end by both
C20_FastPlacesInFactory ==
    \A l \in 1..Len(links) :
        /\ ~links[l].isPatchLink =>
             \E k \in PairCallOf(l) :
                /\ pairCalls[k].node1 = (IF links[l].fast THEN links[l].node1 ELSE NULL)
                /\ pairCalls[k].node2 = (IF links[l].fast THEN links[l].node2 ELSE NULL)
                /\ pairCalls[k].deleteIntfs = ~links[l].fast
        /\ \A k \in 1..2 :
             links[l].placedBy[k] =
                 IF ~InNamespace(EndNode(l, k)) THEN { }
                 ELSE IF links[l].fast THEN { "makeIntfPair" }
                 ELSE { "Intf.__init__" }

\* a link made with fast whose first end is on the host
C20_Witness ==
    \E l \in 1..Len(links) :
        /\ links[l].fast
        /\ InNamespace(links[l].node1)
        /\ links[l].placedBy[1] = { "makeIntfPair" }
        /\ PairCallOf(l) # { }



\* ---- links of two shaped interfaces ----
\* what a logged command configures: its text and its numbers, without the
\* device and without the number of the pipe it is applied to
ShapingOf(c) ==
    IF "nums" \notin DOMAIN c THEN << c.args >>
    ELSE IF StartsWith(c.args, "ipfw add pipe") \/ StartsWith(c.args, "ipfw pipe")
    THEN << c.args, Tail(c.nums) >>
    ELSE << c.args, c.nums >>
ShapingsOf(cs) == [ k \in 1..Len(cs) |-> ShapingOf(cs[k]) ]

\* the ends of the link just made are of the shaping class of the link and
\* were handed the options the link was made with
SameClassAndOptions(l) ==
    /\ End1(l).cls = ShapingClass(links[l].variant)
    /\ End2(l).cls = End1(l).cls
    /\ last.params[1] = last.args[3]
    /\ last.params[2] = last.args[3]

\* each end has the port given for it, or the next port of its node
OwnPorts(l) ==
    /\ End1(l).port = (IF last.args[1] # None THEN Val(last.args[1]) ELSE last.newPorts[1])
    /\ End2(l).port = (IF last.args[2] # None THEN Val(last.args[2]) ELSE last.newPorts[2])

\* the speedup option makes a TCIntf on a node named s... use another rate
SpeedupApplies(l) ==
    /\ links[l].variant = "TCLink"
    /\ last.args[3].speedup > 0
    /\ IsOVSSwitch(links[l].node1) # IsOVSSwitch(links[l].node2)

\* C21 as stated: a TCLink or IFLink makes both ends of the same shaping
\* class with equal options, both ends are configured alike, and a port given
\* for one end is not the port of the other
C21_BothEndsShapedAlikeOwnPorts ==
    \A l \in LinkIds :
        LastWas("ShapedLink.__init__", l) =>
            /\ SameClassAndOptions(l)
            /\ ShapingsOf(last.issued[1]) = ShapingsOf(last.issued[2])
            /\ OwnPorts(l)

\* C21, amended: both ends are of the same shaping class and are handed equal
\* options, and each end has its own port; the commands configuring the two
\* ends are alike except on a TCLink made with speedup between a switch and
\* a host, where only the end on the switch uses the speedup rate
C21_BothEndsSameOptionsOwnPorts ==
    \A l \in LinkIds :
        LastWas("ShapedLink.__init__", l) =>
            /\ SameClassAndOptions(l)
            /\ ~SpeedupApplies(l) => ShapingsOf(last.issued[1]) = ShapingsOf(last.issued[2])
            /\ OwnPorts(l)

\* a link made with a port for its first end only, and shaped
C21_Witness ==
    \E l \in LinkIds :
        /\ LastWas("ShapedLink.__init__", l)
        /\ last.args[1] # None /\ last.args[2] = None
        /\ Truthy(last.args[3].bw)
        /\ End1(l).port = Val(last.args[1])
        /\ End2(l).port # End1(l).port


\* ---- validation errors and command errors of TCIntf.config ----
\* the options as the call was given them
BwGiven == ~IsNone(shArgs.p.bw)
BwRejected == BwGiven /\ (Val(shArgs.p.bw) < 0 \/ Val(shArgs.p.bw) > bwParamMax)
BwAccepted == BwGiven /\ Val(shArgs.p.bw) > 0 /\ Val(shArgs.p.bw) <= bwParamMax
Negative(x) == ~IsNone(x) /\ Val(x) < 0
LossRejected == ~IsNone(shArgs.p.loss) /\ (Val(shArgs.p.loss) < 0 \/ Val(shArgs.p.loss) > 100)
DelayStageRejected ==
    Negative(shArgs.p.delay) \/ Negative(shArgs.p.jitter) \/ LossRejected

\* the commands of the bandwidth stage and of the netem stage among those
\* handed to the runner
IssuedBw == IssuedWith(" root handle 5") \cup IssuedWith("classid 5:1")
IssuedNetem == IssuedWith("netem")

C22_WitnessBandwidthKept ==
    /\ Configured("TCIntf")
    /\ BwAccepted
    /\ Negative(shArgs.p.jitter)
    /\ IssuedBw # { }
    /\ Len(ValidationErrors) = 1


\* the commands of the computed sequence as they were handed to the runner:
\* the last ones issued, as many as there are outputs
RanFrom == Len(shRes.issued) - Len(shRes.tcoutputs)
RanStep(k) == shRes.issued[RanFrom + k]
SameCommand(c, d) == c.text = d.text /\ c.args = d.args
Complaints == { k \in 1..Len(shRes.tcoutputs) : shRes.tcoutputs[k] # "" }

\* C23: TCIntf.config hands every command of the sequence it computed (the
\* clearing command if any, the bandwidth commands, the netem command) to the
\* runner whatever the earlier ones printed, and reports one command error
\* for each of them that printed something and none for the others
C23_AllCommandsRunEachFailureReportedOnce ==
    (Configured("TCIntf") /\ shRes.shaped /\ ~shRes.raised) =>
        LET computed == shRes.bwCmds \o shRes.delayCmds
            nclear   == Len(shRes.tcoutputs) - Len(computed)
            shown    == shRes.issued[RanFrom]
        IN  /\ shown.text = "%s qdisc show dev %s"
            /\ nclear \in { 0, 1 }
            /\ nclear = 1 => RanStep(1).text = "%s qdisc del dev %s root"
            /\ \A k \in 1..Len(computed) : SameCommand(RanStep(nclear + k), computed[k])
            /\ \A k \in 1..Len(shRes.tcoutputs) : RanStep(k).out = shRes.tcoutputs[k]
            /\ NErrors("command error") = Cardinality(Complaints)

\* a call whose first shaping command complained and whose later ones ran
C23_Witness ==
    /\ Configured("TCIntf") /\ shRes.shaped /\ ~shRes.raised
    /\ Len(shRes.tcoutputs) >= 2
    /\ shRes.tcoutputs[1] # ""
    /\ shRes.tcoutputs[Len(shRes.tcoutputs)] = ""
    /\ NErrors("command error") = 1


\* ---- command errors of IFIntf.config ----
\* the drop rules and pipe commands handed to the runner, and those of them
\* that printed something
IFIssued == { i \in 1..Len(shRes.issued) : StartsWith(shRes.issued[i].text, "ipfw ") }
IFComplained == { i \in IFIssued : shRes.issued[i].out # "" }

\* C24: IFIntf.config reports a command error exactly when a drop rule or
\* pipe command printed something; when all of them printed nothing, no error
\* is reported and the outputs returned are all command output text
C24_IFErrorIffCommandOutput ==
    (Configured("IFIntf") /\ shRes.shaped) =>
        /\ (NErrors("command error") > 0) <=> (IFComplained # { })
        /\ \A k \in 1..Len(shRes.tcoutputs) : shRes.tcoutputs[k] # NULL


\* ---- config() and its methods on one interface ----
LastOn(cls) == last.id \in IntfIds /\ intfs[last.id].cls = cls
ArgsOf(cs) == [ k \in 1..Len(cs) |-> cs[k].args ]

\* the call asks for nothing but bringing the interface up
OnlyBringsUp ==
    \/ last.op = "Intf.__init__"
    \/ last.op = "Intf.isUp" /\ last.args = << TRUE >>
    \/ last.op = "Intf.ifconfig" /\ last.args = << "up" >>
    \/ last.op = "Intf.config" /\ last.args = << NULL, NULL, "True", NULL >>
\* the call asks for nothing at all
AsksNothing == last.op = "Intf.config" /\ last.args = << NULL, NULL, NULL, NULL >>

\* C25: on an OVSIntf a request to bring the interface up issues no command
\* and succeeds (isUp( True ) is true, and so the default construction
\* succeeds); setIP, setMAC, ifconfig with other arguments and the state query
\* isUp() raise; and no call ever issues a command
C25_OVSIntfOnlyBringsUp ==
    LastOn("OVSIntf") =>
        /\ cmds[last.id] = << >>
        /\ OnlyBringsUp => ~last.raised
        /\ (last.op = "Intf.isUp" /\ last.args = << TRUE >>) => last.ret = "True"
        /\ (~OnlyBringsUp /\ ~AsksNothing) => last.raised

\* isUp( True ) was called on an OVSIntf and said yes
C25_Witness ==
    /\ LastOn("OVSIntf")
    /\ last.op = "Intf.isUp" /\ last.args = << TRUE >>
    /\ ~last.raised /\ last.ret = "True"

\* the commands config() issues for its options, in the order mac, ip, up,
\* ifconfig
ExpectedOrder(a) ==
    (IF a[1] # NULL THEN << "mac" >> ELSE << >>)
    \o (IF a[2] # NULL THEN << "ip" >> ELSE << >>)
    \o (IF a[3] # NULL THEN << "up" >> ELSE << >>)
    \o (IF a[4] # NULL THEN << "ifconfig" >> ELSE << >>)
ExpectedArgs(a) ==
    (IF a[1] # NULL THEN << "down", "ether " \o a[1] \o " up" >> ELSE << >>)
    \o (IF a[2] # NULL THEN << a[2] \o " up" >> ELSE << >>)
    \o (IF a[3] = "True" THEN << "up" >> ELSE IF a[3] = "False" THEN << "" >> ELSE << >>)
    \o (IF a[4] # NULL THEN << a[4] >> ELSE << >>)

\* C27: Intf.config applies mac, ip, up, ifconfig in this order; an option
\* that is None issues no command and has no entry in the mapping returned,
\* every other option has one entry, and up=False issues the state query and
\* no command bringing the interface up
C27_ConfigAppliesOptionsInOrder ==
    (LastOn("Intf") /\ last.op = "Intf.config") =>
        /\ ~last.raised
        /\ DOMAIN last.ret[1] = { ExpectedOrder(last.args)[k] :
                                     k \in 1..Len(ExpectedOrder(last.args)) }
        /\ last.ret[2] = ExpectedOrder(last.args)
        /\ ArgsOf(last.issued) = ExpectedArgs(last.args)
        /\ last.args[3] = "False" =>
               /\ \A k \in 1..Len(last.issued) : last.issued[k].args # "up"
               /\ last.ret[1]["up"] \in { "True", "False" }

\* config( mac=..., up=False ) on an Intf: two entries, the query issued last
C27_Witness ==
    /\ LastOn("Intf") /\ last.op = "Intf.config"
    /\ last.args[1] # NULL /\ last.args[2] = NULL /\ last.args[3] = "False"
    /\ last.args[4] = NULL
    /\ DOMAIN last.ret[1] = { "mac", "up" }
    /\ Len(last.issued) = 3 /\ last.issued[3].args = ""


\* ---- the pair factory and the shared counters ----
\* C26: makeIntfPair of the pair-style backend raises when the create command
\* of either device, the second of which also patches it onto the first,
\* prints a complaint, instead of returning the two device names
C26_PairFactoryRaisesOnFailure ==
    (last.op = "makeIntfPair" /\ \E k \in 1..Len(last.outputs) : last.outputs[k] # "") =>
        last.raised

\* the numbers handed out by one allocator, in the order they were handed out
HandedOf(kind) == SelectSeq(handed, LAMBDA h : h.kind = kind)
Increasing(sq) == \A i \in 1..Len(sq) : \A j \in (i + 1)..Len(sq) : sq[i].n < sq[j].n
Distinct(sq) == \A i \in 1..Len(sq) : \A j \in (i + 1)..Len(sq) : sq[i] # sq[j]
PairDevices == SelectSeq(devs, LAMBDA d : StartsWith(d, "pair"))

\* C28: with one caller at a time the two counters never decrease, every pipe
\* number handed out is greater than all handed out before, to whichever
\* IFIntf, the pair indices handed out are all different, and so are the
\* device names makeIntfPair returns and creates, within a pair and across
C28_CountersGrowNumbersFresh ==
    /\ [](/\ Increasing(HandedOf("pipe"))
          /\ Increasing(HandedOf("pair"))
          /\ Distinct(PairDevices)
          /\ last.op = "makeIntfPair" => last.ret[1] # last.ret[2])
    /\ [][index' >= index /\ pipeNo' >= pipeNo]_vars

\* two pairs made and pipes handed to two IFIntf
C28_Witness ==
    /\ Len(HandedOf("pair")) = 4
    /\ Len(PairDevices) >= 3
    /\ \E i, j \in 1..Len(handed) :
          /\ handed[i].kind = "pipe" /\ handed[j].kind = "pipe"
          /\ handed[i].by # handed[j].by

\* C29: nothing serialises the callers of an allocator: the number a caller
\* hands out is the one it read, and what it stores is the value it loaded
\* plus one, whatever the other caller did to the counter in between; so two
\* callers can be handed the same number and the counter can advance by less
\* than the number of allocations
C29_AllocationIsReadThenIncrement ==
    [][\A t \in Callers :
          /\ (thr[t].pc = "idle" /\ thr'[t].pc = "read") =>
                 thr'[t].n = Counter(thr'[t].kind)
          /\ (thr[t].pc = "loaded" /\ thr'[t].pc = "idle") =>
                 /\ (IF thr[t].kind = "pipe" THEN pipeNo' ELSE index') = thr[t].tmp + 1
                 /\ handed' = Append(handed, Handed(thr[t].kind, thr[t].n, t))]_vars

\* two callers were handed the same pipe number and IFIntf.pipeNo advanced by
\* one only
C29_Witness ==
    /\ \A t \in Callers : thr[t].pc = "idle"
    /\ Len(handed) = 2
    /\ handed[1].kind = "pipe" /\ handed[2].kind = "pipe"
    /\ handed[1].n = handed[2].n /\ handed[1].by # handed[2].by
    /\ pipeNo = FirstPipeNo + 1


\* ---- the alias table of the pair-style backend ----
\* the names interface id has had or can be given, and the entries the node's
\* alias table holds under them
OwnNames(id) == { intfName(intfs[id].node, intfs[id].port) } \cup RenameNames
OwnEntries(id) == DOMAIN portNames[intfs[id].node] \cap OwnNames(id)
\* the interface was made with the table holding another interface's entry
MadeBesideOther(id) ==
    \E k \in DOMAIN portNames[intfs[id].node] : k \notin OwnNames(id)

\* C30: on the pair-style backend the node's alias table holds at most one
\* entry for the interface; after rename() it is the current name mapped to
\* the real device name, with nothing left under an earlier name; after
\* delete() there is none; and another interface's entry stays as it was
C30_AliasTableFollowsRenameAndDelete ==
    /\ [](\A id \in IntfIds :
            intfs[id].cls = "openbsd.Intf" =>
                LET i   == intfs[id]
                    tab == portNames[i.node]
                IN  /\ Cardinality(OwnEntries(id)) <= 1
                    /\ LastWas("Intf.rename", id) =>
                           /\ OwnEntries(id) = { i.name }
                           /\ tab[i.name] = i.realname
                    /\ LastWas("Intf.delete", id) => OwnEntries(id) = { }
                    /\ \A k \in DOMAIN tab \ OwnNames(id) :
                           tab[k] = OtherAliases(i.node)[k])
    /\ [][\A n \in Nodes :
            (\E k \in DOMAIN portNames[n] : k \in DOMAIN OtherAliases(n)) =>
                \E k \in DOMAIN portNames'[n] : k \in DOMAIN OtherAliases(n)]_vars

\* a second rename of an interface made over pair1, beside another
\* interface's entry: the entry moved from the first new name to the second
C30_Witness ==
    \E id \in IntfIds :
        /\ intfs[id].cls = "openbsd.Intf"
        /\ LastWas("Intf.rename", id)
        /\ last.before.name \in RenameNames
        /\ last.before.name # intfs[id].name
        /\ intfs[id].realname = "pair1"
        /\ MadeBesideOther(id)
        /\ intfs[id].name \in DOMAIN portNames[intfs[id].node]

====
